---- MODULE Spec2Model ----
(***************************************************************************)
(* TLS 1.3 client handshake of library/ssl_tls13_client.c together with    *)
(* the shared handshake helpers of library/ssl_tls13_generic.c.            *)
(*                                                                         *)
(* Build modelled: client endpoint, record layer without MPS (the #else    *)
(* branches of MBEDTLS_SSL_USE_MPS), MBEDTLS_ZERO_RTT,                     *)
(* MBEDTLS_KEY_EXCHANGE_WITH_CERT_ENABLED and                              *)
(* MBEDTLS_KEY_EXCHANGE_SOME_PSK_ENABLED defined.  Compatibility mode      *)
(* (MBEDTLS_SSL_TLS1_3_COMPATIBILITY_MODE) is a field of the configuration *)
(* so that both builds are explored.                                       *)
(*                                                                         *)
(* The context is one record, ssl, whose fields are the fields of          *)
(* mbedtls_ssl_context, of ssl->handshake and of ssl->session_negotiate    *)
(* that the handshake reads or writes.  Every C function is an operator    *)
(* from a context to the context it leaves behind; the field ret is the    *)
(* value the function returns.  One action is one call of                  *)
(* mbedtls_ssl_tls13_handshake_client_step.                                *)
(***************************************************************************)
EXTENDS Integers, Sequences, FiniteSets, TLC

VARIABLES conf, ssl, in_msg

vars == <<conf, ssl, in_msg>>

(***************************************************************************)
(* Bounds of the exploration.                                              *)
(***************************************************************************)
\* largest number of extensions in a message received from the server
MaxExts == 3

(***************************************************************************)
(* Protocol constants.                                                     *)
(***************************************************************************)
MBEDTLS_SERVER_HELLO_RANDOM_LEN == 32

TLS1_2 == 771
TLS1_3 == 772

\* extension types (IANA numbers, as in the MBEDTLS_TLS_EXT_ macros)
EXT_SUPPORTED_VERSIONS == 43
EXT_COOKIE == 44
EXT_PRE_SHARED_KEY == 41
EXT_KEY_SHARE == 51
EXT_EARLY_DATA == 42
EXT_PSK_KEY_EXCHANGE_MODES == 45
EXT_UNKNOWN == 65000

\* ciphersuites: three TLS 1.3 suites and one TLS 1.2 suite
TLS1_3_AES_128_GCM_SHA256 == 4865
TLS1_3_AES_256_GCM_SHA384 == 4866
TLS1_3_CHACHA20_POLY1305_SHA256 == 4867
TLS_ECDHE_ECDSA_AES_128_GCM_SHA256 == 49195

\* named groups
SECP256R1 == 23
SECP384R1 == 24
X25519 == 29
SECP224R1 == 21
FFDHE2048 == 256

KexModes == {"PSK", "EPHEMERAL", "PSK_EPHEMERAL"}

\* SHA-256("HelloRetryRequest"), the random of a HelloRetryRequest
magic_hrr_string ==
  << 207, 33, 173, 116, 229, 154, 97, 17, 190, 29, 140, 2, 30, 101, 184, 145,
     194, 162, 17, 22, 122, 187, 140, 94, 7, 158, 9, 226, 200, 168, 51, 156 >>

\* "DOWNGRD", the first seven of the last eight bytes of a downgrade random
magic_downgrade_string == << 68, 79, 87, 78, 71, 82, 68 >>

(***************************************************************************)
(* Helpers of the library that live outside the modelled files.            *)
(***************************************************************************)
\* mbedtls_ssl_ciphersuite_from_id: 0 stands for NULL, else the hash length
mbedtls_ssl_ciphersuite_from_id(id) ==
  CASE id = TLS1_3_AES_128_GCM_SHA256 -> [id |-> id, tls13 |-> TRUE, hash_len |-> 32]
    [] id = TLS1_3_AES_256_GCM_SHA384 -> [id |-> id, tls13 |-> TRUE, hash_len |-> 48]
    [] id = TLS1_3_CHACHA20_POLY1305_SHA256 -> [id |-> id, tls13 |-> TRUE, hash_len |-> 32]
    [] id = TLS_ECDHE_ECDSA_AES_128_GCM_SHA256 -> [id |-> id, tls13 |-> FALSE, hash_len |-> 32]
    [] OTHER -> [id |-> 0, tls13 |-> FALSE, hash_len |-> 0]

\* mbedtls_ssl_validate_ciphersuite( ssl, info, TLS1_3, TLS1_3 ): TRUE when
\* the suite is known and belongs to TLS 1.3
mbedtls_ssl_validate_ciphersuite(info) ==
  info.id # 0 /\ info.tls13

\* mbedtls_ecp_curve_info_from_tls_id: TRUE when the id names a known curve
mbedtls_ecp_curve_info_from_tls_id(g) ==
  g \in {SECP224R1, SECP256R1, SECP384R1, X25519}

mbedtls_ssl_tls13_named_group_is_ecdhe(g) ==
  g \in {SECP256R1, SECP384R1, X25519}

mbedtls_ssl_tls13_named_group_is_dhe(g) ==
  g \in {FFDHE2048}

mbedtls_ssl_conf_tls13_some_ephemeral_enabled(c) ==
  c.tls13_kex_modes \cap {"EPHEMERAL", "PSK_EPHEMERAL"} # {}

mbedtls_ssl_conf_tls13_some_psk_enabled(c) ==
  c.tls13_kex_modes \cap {"PSK", "PSK_EPHEMERAL"} # {}

\* mbedtls_ssl_get_psk_to_offer returns 0 exactly when a PSK is configured
mbedtls_ssl_get_psk_to_offer(c) ==
  c.psk

(***************************************************************************)
(* Return codes.                                                           *)
(***************************************************************************)
\* a function that fails: records the return code and the pended alert
Fail(s, err, alert) ==
  [s EXCEPT !.ret = err, !.alert = alert]

\* a function that fails without pending an alert
FailNoAlert(s, err) ==
  [s EXCEPT !.ret = err]

\* the call named, made by the function named, is the one that fails
Fails(s, in, call) ==
  s.fault = [in |-> in, call |-> call]

\* the code a failing call into ssl_tls13_keys.c or ssl_tls.c returns
LibraryError == "HW_ACCEL_FAILED"

\* a transform leaves the function that allocated it: installed (stored in
\* the context), freed (mbedtls_free of the block as it is) or lost (neither)
TransformFate(s, transform, fate) ==
  [s EXCEPT !.heap = Append(@, [transform |-> transform, fate |-> fate])]

(***************************************************************************)
(* Configurations and the context after mbedtls_ssl_setup.                 *)
(***************************************************************************)
\* two ciphersuite lists: TLS 1.3 suites only, and a TLS 1.3 suite followed
\* by a TLS 1.2 suite
SuitesA == << TLS1_3_AES_128_GCM_SHA256, TLS1_3_AES_256_GCM_SHA384 >>

SuitesB == << TLS1_3_AES_256_GCM_SHA384, TLS_ECDHE_ECDSA_AES_128_GCM_SHA256 >>

\* a group list whose first entry is not an ECDHE group and whose last entry
\* is a curve that TLS 1.3 does not use
GroupList == << FFDHE2048, SECP256R1, X25519, SECP224R1 >>

Config(kex, suites, psk, early, minv, compat, cert) ==
  [ tls13_kex_modes |-> kex,
    ciphersuite_list |-> suites,
    group_list |-> GroupList,
    psk |-> psk,
    early_data_enabled |-> early,
    min_tls_version |-> minv,
    compatibility_mode |-> compat,
    own_cert |-> cert,
    alpn_list |-> << >> ]

\* the configurations explored: every combination of key-exchange modes
\* with and without a PSK, each other option in both of its values
Configs ==
  { Config(KexModes, SuitesA, TRUE, TRUE, TLS1_3, TRUE, TRUE),
    Config(KexModes, SuitesA, TRUE, FALSE, TLS1_2, FALSE, FALSE),
    Config(KexModes, SuitesB, FALSE, FALSE, TLS1_3, FALSE, TRUE),
    Config({"EPHEMERAL"}, SuitesA, FALSE, FALSE, TLS1_2, TRUE, FALSE),
    Config({"EPHEMERAL"}, SuitesA, TRUE, FALSE, TLS1_3, FALSE, TRUE),
    Config({"PSK"}, SuitesA, TRUE, TRUE, TLS1_3, FALSE, FALSE),
    Config({"PSK"}, SuitesB, FALSE, FALSE, TLS1_2, TRUE, FALSE),
    Config({"PSK_EPHEMERAL"}, SuitesB, TRUE, FALSE, TLS1_3, FALSE, TRUE) }

\* no call into the key schedule fails
NoFault == [in |-> "none", call |-> "none"]

\* ssl->session before any NewSessionTicket; ingested counts the tickets
\* handled on the connection
NoTicket ==
  [ ticket |-> 0,
    ticket_lifetime |-> 0,
    ticket_age_add |-> << 0, 0 >>,
    ticket_flags |-> {},
    max_early_data_size |-> 0,
    key_len |-> 0,
    ticket_received |-> 0,
    ingested |-> 0 ]

\* ticket_age_add and ticket_received are those of ssl->session_negotiate;
\* have_time is MBEDTLS_HAVE_TIME of the build and clock is what time( NULL )
\* returns
\* hash_transcript is the message_hash message that heads the transcript
\* (<< >> when none does); fault is the library call that is to fail on this
\* connection and heap the transforms the key schedule has allocated, each
\* with what became of it; zero_rtt is MBEDTLS_ZERO_RTT of the build;
\* early_secret_psk is what the last derivation of the early secret took as
\* its PSK ("PSK" the handshake PSK, "ZERO" the all-zero default); out_buf is
\* the range [buf, end) handed to a body writer: its size, the offsets from
\* buf the writer stored a byte at, and the *out_len it reported
InitialContext ==
  [ state |-> "HELLO_REQUEST",
    ret |-> "OK",
    alert |-> "none",
    tls_version |-> TLS1_3,
    hello_retry_request_count |-> 0,
    offered_group_id |-> 0,
    extensions_present |-> {},
    hrr_cookie |-> << >>,
    ecdh_psa_privkey |-> 0,
    keys_generated |-> 0,
    keys_live |-> {},
    ciphersuite |-> 0,
    ciphersuite_info |-> 0,
    key_exchange |-> "NONE",
    psk_set |-> FALSE,
    early_data |-> "OFF",
    early_data_status |-> "NOT_SENT",
    key_schedule |-> "none",
    transform_in |-> "none",
    transform_out |-> "none",
    transform_earlydata |-> FALSE,
    transform_handshake |-> FALSE,
    transform_application |-> FALSE,
    client_auth |-> FALSE,
    peer_cert |-> FALSE,
    transcript |-> << >>,
    sent |-> << >>,
    switches |-> << >>,
    coordinate |-> "NONE",
    kept |-> << >>,
    hrr |-> << >>,
    session |-> NoTicket,
    ticket_age_add |-> << 0, 0 >>,
    ticket_received |-> 0,
    have_time |-> TRUE,
    clock |-> 0,
    alpn_chosen |-> << >>,
    hash_transcript |-> << >>,
    certificate_request_context |-> << >>,
    certificate_request_context_len |-> 0,
    fault |-> NoFault,
    heap |-> << >>,
    zero_rtt |-> TRUE,
    ecdh_psa_peerkey_len |-> 0,
    peerkey_copied |-> 0,
    early_secret_psk |-> "NONE",
    out_buf |-> [size |-> 0, written |-> {}, out_len |-> 0] ]

NoMessage == [hs_type |-> "none"]

Init ==
  /\ conf \in Configs
  /\ ssl = InitialContext
  /\ in_msg = NoMessage

(***************************************************************************)
(* Record layer and transcript primitives.                                 *)
(***************************************************************************)
\* mbedtls_ssl_handshake_set_state
mbedtls_ssl_handshake_set_state(s, st) ==
  [s EXCEPT !.state = st]

\* mbedtls_ssl_add_hs_msg_to_checksum
mbedtls_ssl_add_hs_msg_to_checksum(s, hs_type) ==
  [s EXCEPT !.transcript = Append(@, hs_type)]

\* mbedtls_ssl_set_inbound_transform; the switch is logged with the state
\* in which it happens
mbedtls_ssl_set_inbound_transform(s, t) ==
  [s EXCEPT !.transform_in = t,
            !.switches = Append(@, [dir |-> "in", keys |-> t, at |-> s.state])]

\* mbedtls_ssl_set_outbound_transform
mbedtls_ssl_set_outbound_transform(s, t) ==
  [s EXCEPT !.transform_out = t,
            !.switches = Append(@, [dir |-> "out", keys |-> t, at |-> s.state])]

\* a record handed to mbedtls_ssl_write_record / finish_handshake_msg; when
\* the transport cannot take it now the record stays in the output buffer
\* for the next flush and the call returns MBEDTLS_ERR_SSL_WANT_WRITE
WriteRecord(s, m) ==
  IF Fails(s, m.hs_type, "write_record")
    THEN [s EXCEPT !.sent = Append(@, m), !.ret = "WANT_WRITE"]
    ELSE [s EXCEPT !.sent = Append(@, m)]

(***************************************************************************)
(* ClientHello extensions.  Each writer returns the context and leaves the *)
(* extension it wrote in the field ext (<< >> when it wrote nothing).      *)
(***************************************************************************)
ssl_tls13_write_supported_versions_ext(c) ==
  IF c.min_tls_version <= TLS1_2
    THEN [type |-> EXT_SUPPORTED_VERSIONS, versions |-> << TLS1_3, TLS1_2 >>]
    ELSE [type |-> EXT_SUPPORTED_VERSIONS, versions |-> << TLS1_3 >>]

\* faulty variant: the extension is written with an empty cookie
ssl_tls13_write_cookie_ext_empty(s) ==
  IF s.hrr_cookie = << >>
    THEN << >>
    ELSE << [type |-> EXT_COOKIE, cookie |-> << >>] >>

ssl_tls13_write_cookie_ext(s) ==
  IF s.hrr_cookie = << >>
    THEN << >>
    ELSE << [type |-> EXT_COOKIE, cookie |-> s.hrr_cookie[1]] >>

RECURSIVE FirstEcdheGroup(_)
FirstEcdheGroup(group_list) ==
  IF group_list = << >> THEN 0
  ELSE IF mbedtls_ecp_curve_info_from_tls_id(Head(group_list))
          /\ mbedtls_ssl_tls13_named_group_is_ecdhe(Head(group_list))
    THEN Head(group_list)
    ELSE FirstEcdheGroup(Tail(group_list))

\* returns the group, 0 when the function fails with FEATURE_UNAVAILABLE
ssl_tls13_get_default_group_id(c) ==
  FirstEcdheGroup(c.group_list)

\* psa_generate_key: a fresh key, whose handle overwrites the old one
ssl_tls13_generate_and_write_ecdh_key_exchange(s) ==
  [s EXCEPT !.keys_generated = @ + 1,
            !.keys_live = @ \cup {s.keys_generated + 1},
            !.ecdh_psa_privkey = s.keys_generated + 1]

ssl_tls13_reset_key_share(s) ==
  IF s.offered_group_id = 0 THEN FailNoAlert(s, "INTERNAL_ERROR")
  ELSE IF mbedtls_ssl_tls13_named_group_is_ecdhe(s.offered_group_id)
    THEN [s EXCEPT !.keys_live = @ \ {s.ecdh_psa_privkey},
                   !.ecdh_psa_privkey = 0]
    ELSE FailNoAlert(s, "INTERNAL_ERROR")

\* returns <<context, extension written>>
ssl_tls13_write_key_share_ext(c, s) ==
  LET group_id ==
        IF ~mbedtls_ssl_tls13_named_group_is_ecdhe(s.offered_group_id)
           /\ ~mbedtls_ssl_tls13_named_group_is_dhe(s.offered_group_id)
          THEN ssl_tls13_get_default_group_id(c)
          ELSE s.offered_group_id
  IN  IF group_id = 0 THEN << FailNoAlert(s, "FEATURE_UNAVAILABLE"), << >> >>
      ELSE IF mbedtls_ssl_tls13_named_group_is_ecdhe(group_id)
        THEN LET k == ssl_tls13_generate_and_write_ecdh_key_exchange(s)
             IN  << [k EXCEPT !.offered_group_id = group_id,
                              !.extensions_present = @ \cup {EXT_KEY_SHARE}],
                    << [type |-> EXT_KEY_SHARE, group |-> group_id,
                        key |-> k.ecdh_psa_privkey] >> >>
        ELSE << FailNoAlert(s, "INTERNAL_ERROR"), << >> >>

\* returns <<context, extension written>>
mbedtls_ssl_tls13_write_early_data_ext(c, s) ==
  IF ~mbedtls_ssl_conf_tls13_some_psk_enabled(c)
     \/ ~mbedtls_ssl_get_psk_to_offer(c)
     \/ ~c.early_data_enabled
    THEN << [s EXCEPT !.early_data = "OFF"], << >> >>
    ELSE << [s EXCEPT !.early_data_status = "REJECTED", !.early_data = "ON"],
            << [type |-> EXT_EARLY_DATA] >> >>

\* faulty variant: psk_ke is listed whatever PSK mode is enabled
ssl_tls13_write_psk_key_exchange_modes_ext_always_pure(c, s) ==
  IF ~mbedtls_ssl_conf_tls13_some_psk_enabled(c) THEN << s, << >> >>
  ELSE IF ~mbedtls_ssl_get_psk_to_offer(c) THEN << s, << >> >>
  ELSE << [s EXCEPT !.extensions_present = @ \cup {EXT_PSK_KEY_EXCHANGE_MODES}],
          << [type |-> EXT_PSK_KEY_EXCHANGE_MODES,
              ke_modes |-> (c.tls13_kex_modes \cap {"PSK_EPHEMERAL"}) \cup {"PSK"}] >> >>

\* returns <<context, extension written>>
ssl_tls13_write_psk_key_exchange_modes_ext(c, s) ==
  IF ~mbedtls_ssl_conf_tls13_some_psk_enabled(c) THEN << s, << >> >>
  ELSE IF ~mbedtls_ssl_get_psk_to_offer(c) THEN << s, << >> >>
  ELSE << [s EXCEPT !.extensions_present = @ \cup {EXT_PSK_KEY_EXCHANGE_MODES}],
          << [type |-> EXT_PSK_KEY_EXCHANGE_MODES,
              ke_modes |-> c.tls13_kex_modes \cap {"PSK", "PSK_EPHEMERAL"}] >> >>

\* the first suite of the list that mbedtls_ssl_ciphersuite_from_id knows
RECURSIVE FirstKnownSuite(_)
FirstKnownSuite(list) ==
  IF list = << >> THEN 0
  ELSE IF mbedtls_ssl_ciphersuite_from_id(Head(list)).id # 0 THEN Head(list)
  ELSE FirstKnownSuite(Tail(list))

\* the loop over conf->ciphersuite_list at the head of both pre_shared_key
\* writers: it stores the first known suite in session_negotiate
PskWriterSelectSuite(c, s) ==
  [s EXCEPT !.ciphersuite = FirstKnownSuite(c.ciphersuite_list),
            !.ciphersuite_info = FirstKnownSuite(c.ciphersuite_list)]

\* the bound of the ticket age test: 7 * 86400 * 1000
TicketAgeLimit == 604800000

\* a uint32_t is a pair << high, low >> of 16-bit halves
Half == 65536

\* the uint32_t of a value below 2^31
ToUint32(n) ==
  << (n \div Half) % Half, n % Half >>

\* addition of two uint32_t, which wraps at 2^32
Uint32Add(a, b) ==
  << (a[1] + b[1] + ((a[2] + b[2]) \div Half)) % Half, (a[2] + b[2]) % Half >>

\* returns <<context, extension written>>
mbedtls_ssl_tls13_write_pre_shared_key_ext_without_binders(c, s) ==
  IF ~mbedtls_ssl_get_psk_to_offer(c) THEN << s, << >> >>
  ELSE LET t == PskWriterSelectSuite(c, s)
           now == t.clock
           with_age == t.ticket_age_add # ToUint32(0) /\ t.have_time
           obfuscated_ticket_age ==
             IF with_age
               THEN Uint32Add(ToUint32(now - t.ticket_received), t.ticket_age_add)
               ELSE ToUint32(0)
       IN  IF with_age /\ ~( /\ t.ticket_received <= now
                             /\ now - t.ticket_received < TicketAgeLimit )
             THEN << FailNoAlert(t, "SESSION_TICKET_EXPIRED"), << >> >>
             ELSE << [t EXCEPT !.extensions_present = @ \cup {EXT_PRE_SHARED_KEY}],
                     << [type |-> EXT_PRE_SHARED_KEY,
                         obfuscated_ticket_age |-> obfuscated_ticket_age,
                         binder_len |->
                           mbedtls_ssl_ciphersuite_from_id(t.ciphersuite).hash_len] >> >>

mbedtls_ssl_tls13_write_pre_shared_key_ext_binders(c, s) ==
  IF ~mbedtls_ssl_get_psk_to_offer(c) THEN s
  ELSE PskWriterSelectSuite(c, s)

\* returns <<context, extensions written>>
mbedtls_ssl_tls13_write_client_hello_exts(c, s) ==
  LET sv == << ssl_tls13_write_supported_versions_ext(c) >>
      ck == ssl_tls13_write_cookie_ext(s)
      ks == IF mbedtls_ssl_conf_tls13_some_ephemeral_enabled(c)
              THEN ssl_tls13_write_key_share_ext(c, s)
              ELSE << s, << >> >>
  IN  IF ks[1].ret # "OK" THEN << ks[1], << >> >>
      ELSE LET ed == IF s.zero_rtt
                       THEN mbedtls_ssl_tls13_write_early_data_ext(c, ks[1])
                       ELSE << ks[1], << >> >>
               pm == ssl_tls13_write_psk_key_exchange_modes_ext(c, ed[1])
           IN  << pm[1], sv \o ck \o ks[2] \o ed[2] \o pm[2] >>

(***************************************************************************)
(* The lengths the extension writers report through out_len.  Each         *)
(* operator takes what its function takes and returns what the caller      *)
(* finds in its ext_len after the call.                                    *)
(***************************************************************************)
\* psa_export_public_key: the length of the public key of a group
PublicKeyLen(group_id) ==
  CASE group_id = SECP256R1 -> 65
    [] group_id = SECP384R1 -> 97
    [] group_id = X25519 -> 32
    [] OTHER -> 0

ssl_tls13_write_supported_versions_ext_out_len(c) ==
  LET versions_len == IF c.min_tls_version <= TLS1_2 THEN 4 ELSE 2
  IN  5 + versions_len

ssl_tls13_write_cookie_ext_out_len(s) ==
  IF s.hrr_cookie = << >> THEN 0 ELSE Len(s.hrr_cookie[1]) + 6

\* s is the context the writer leaves, which holds the group it offered
ssl_tls13_write_key_share_ext_out_len(s) ==
  6 + 4 + PublicKeyLen(s.offered_group_id)

mbedtls_ssl_tls13_write_early_data_ext_out_len(c) ==
  IF ~mbedtls_ssl_conf_tls13_some_psk_enabled(c)
     \/ ~mbedtls_ssl_get_psk_to_offer(c)
     \/ ~c.early_data_enabled
    THEN 0
    ELSE 4

\* without a PSK to offer the function returns 0 and leaves *out_len as the
\* caller passed it: ext_len is what the caller holds from the writer before
ssl_tls13_write_psk_key_exchange_modes_ext_out_len(c, ext_len) ==
  IF ~mbedtls_ssl_conf_tls13_some_psk_enabled(c) THEN 0
  ELSE IF ~mbedtls_ssl_get_psk_to_offer(c) THEN ext_len
  ELSE 5 + Cardinality(c.tls13_kex_modes \cap {"PSK", "PSK_EPHEMERAL"})

\* *out_len of mbedtls_ssl_tls13_write_client_hello_exts when it returns 0:
\* p - buf after p has been advanced by ext_len behind every writer
mbedtls_ssl_tls13_write_client_hello_exts_out_len(c, s) ==
  LET sv == ssl_tls13_write_supported_versions_ext_out_len(c)
      ck == ssl_tls13_write_cookie_ext_out_len(s)
      ephemeral == mbedtls_ssl_conf_tls13_some_ephemeral_enabled(c)
      ks == IF ephemeral
              THEN ssl_tls13_write_key_share_ext_out_len(
                     ssl_tls13_write_key_share_ext(c, s)[1])
              ELSE 0
      after_ks == IF ephemeral THEN ks ELSE ck
      ed == IF s.zero_rtt THEN mbedtls_ssl_tls13_write_early_data_ext_out_len(c)
                          ELSE 0
      after_ed == IF s.zero_rtt THEN ed ELSE after_ks
      pm == ssl_tls13_write_psk_key_exchange_modes_ext_out_len(c, after_ed)
  IN  sv + ck + ks + ed + pm

\* mbedtls_ssl_write_client_hello (ssl_client.c): the extensions above, then
\* pre_shared_key as the last extension, the message folded into the
\* transcript and handed to the record layer, and the next state
mbedtls_ssl_write_client_hello(c, s) ==
  LET ex == mbedtls_ssl_tls13_write_client_hello_exts(c, s)
  IN  IF ex[1].ret # "OK" THEN ex[1]
      ELSE LET pk == mbedtls_ssl_tls13_write_pre_shared_key_ext_without_binders(c, ex[1])
           IN  IF pk[1].ret # "OK" THEN pk[1] ELSE
           LET bd == mbedtls_ssl_tls13_write_pre_shared_key_ext_binders(c, pk[1])
               ch == [hs_type |-> "client_hello",
                      cipher_suites |-> c.ciphersuite_list,
                      exts |-> ex[2] \o pk[2]]
               w  == WriteRecord(
                       mbedtls_ssl_add_hs_msg_to_checksum(bd, "client_hello"), ch)
           IN  mbedtls_ssl_handshake_set_state(w,
                 IF c.compatibility_mode THEN "CLIENT_CCS_AFTER_CLIENT_HELLO"
                                         ELSE "EARLY_APP_DATA")

(***************************************************************************)
(* ChangeCipherSpec for middlebox compatibility (ssl_tls13_generic.c).     *)
(***************************************************************************)
\* TRUE when the record is to be written (SSL_WRITE_CCS_NEEDED)
ssl_tls13_write_change_cipher_spec_coordinate(s) ==
  CASE s.state = "CLIENT_CCS_AFTER_CLIENT_HELLO" -> s.early_data = "ON"
    [] s.state \in {"CLIENT_CCS_BEFORE_2ND_CLIENT_HELLO",
                    "CLIENT_CCS_AFTER_SERVER_FINISHED"} -> s.early_data # "ON"
    [] OTHER -> FALSE

\* the payload of the record: one byte, 1
ssl_tls13_write_change_cipher_spec_body ==
  [hs_type |-> "change_cipher_spec", payload |-> << 1 >>]

\* a writer that would also add the record to the transcript
mbedtls_ssl_tls13_write_change_cipher_spec_hashed(s) ==
  IF ssl_tls13_write_change_cipher_spec_coordinate(s)
    THEN WriteRecord(mbedtls_ssl_add_hs_msg_to_checksum(s, "change_cipher_spec"),
                     ssl_tls13_write_change_cipher_spec_body)
    ELSE s

mbedtls_ssl_tls13_write_change_cipher_spec(s) ==
  IF ssl_tls13_write_change_cipher_spec_coordinate(s)
    THEN WriteRecord(s, ssl_tls13_write_change_cipher_spec_body)
    ELSE s

(***************************************************************************)
(* 0-RTT early data.                                                       *)
(***************************************************************************)
\* TRUE for SSL_EARLY_DATA_WRITE
ssl_tls13_write_early_data_coordinate(s) ==
  s.early_data = "ON"

\* mbedtls_ssl_tls13_key_schedule_stage_early (ssl_tls13_keys.c): the early
\* secret is derived from the handshake PSK when one is set and from the
\* all-zero default otherwise; early_secret_psk records which it was
mbedtls_ssl_tls13_key_schedule_stage_early(s) ==
  [s EXCEPT !.early_secret_psk = IF s.psk_set THEN "PSK" ELSE "ZERO"]

\* every failure returns at once: the transform allocated before
\* mbedtls_ssl_tls13_populate_transform fails is not freed
ssl_tls13_write_early_data_prepare(c, s) ==
  IF ~mbedtls_ssl_get_psk_to_offer(c) THEN FailNoAlert(s, "INTERNAL_ERROR")
  ELSE IF Fails(s, "early_data", "set_hs_psk") THEN FailNoAlert(s, LibraryError)
  ELSE LET psk == [s EXCEPT !.psk_set = TRUE]
           early == [mbedtls_ssl_tls13_key_schedule_stage_early(psk)
                       EXCEPT !.key_schedule = "early"]
       IN  IF Fails(s, "early_data", "key_schedule")
             THEN FailNoAlert(psk, LibraryError)
           ELSE IF Fails(s, "early_data", "generate_keys")
             THEN FailNoAlert(early, LibraryError)
           ELSE IF Fails(s, "early_data", "calloc")
             THEN FailNoAlert(early, "ALLOC_FAILED")
           ELSE IF Fails(s, "early_data", "populate_transform")
             THEN FailNoAlert(TransformFate(early, "earlydata", "lost"),
                              LibraryError)
           ELSE mbedtls_ssl_set_outbound_transform(
                  TransformFate([early EXCEPT !.transform_earlydata = TRUE],
                                "earlydata", "installed"),
                  "earlydata")

\* faulty variant: the PSK set for the early data stays the handshake PSK
ssl_tls13_write_early_data_postprocess_keep_psk(s) ==
  mbedtls_ssl_handshake_set_state(s, "SERVER_HELLO")

\* mbedtls_ssl_remove_hs_psk clears the PSK that protected the early data
ssl_tls13_write_early_data_postprocess(s) ==
  mbedtls_ssl_handshake_set_state([s EXCEPT !.psk_set = FALSE], "SERVER_HELLO")

ssl_tls13_write_early_data_process(c, s) ==
  IF ssl_tls13_write_early_data_coordinate(s)
    THEN LET p == ssl_tls13_write_early_data_prepare(c, s)
         IN  IF p.ret # "OK" THEN p
             ELSE WriteRecord(ssl_tls13_write_early_data_postprocess(p),
                              [hs_type |-> "early_data", keys |-> p.transform_out])
    ELSE ssl_tls13_write_early_data_postprocess(s)

(***************************************************************************)
(* ServerHello and HelloRetryRequest.                                      *)
(***************************************************************************)
\* the last n elements of a sequence
LastBytes(seq, n) ==
  SubSeq(seq, Len(seq) - n + 1, Len(seq))

\* TRUE when some extension of the list is supported_versions
ssl_tls13_is_supported_versions_ext_present(m) ==
  \E i \in 1..Len(m.exts) : m.exts[i].type = EXT_SUPPORTED_VERSIONS

\* faulty variant: only the TLS 1.2 sentinel ("DOWNGRD" 0x01) is recognised
ssl_tls13_is_downgrade_negotiation_tls12_only(m) ==
  LET last_eight_bytes_of_random == LastBytes(m.random, 8)
  IN  /\ SubSeq(last_eight_bytes_of_random, 1, 7) = magic_downgrade_string
      /\ last_eight_bytes_of_random[8] = 1

ssl_tls13_is_downgrade_negotiation(m) ==
  LET last_eight_bytes_of_random == LastBytes(m.random, 8)
  IN  /\ SubSeq(last_eight_bytes_of_random, 1, 7) = magic_downgrade_string
      /\ last_eight_bytes_of_random[8] \in {0, 1}

ssl_server_hello_is_hrr(m) ==
  m.random = magic_hrr_string

\* mbedtls_ssl_tls13_fetch_handshake_msg: the record layer delivers m
mbedtls_ssl_tls13_fetch_handshake_msg(s, m, hs_type) ==
  IF m.hs_type # hs_type
    THEN Fail(s, "UNEXPECTED_MESSAGE", "unexpected_message")
    ELSE s

\* faulty variant: the number of HelloRetryRequests is not limited
ssl_tls13_server_hello_coordinate_any_hrr(c, s0, m) ==
  LET s == mbedtls_ssl_tls13_fetch_handshake_msg(s0, m, "server_hello")
  IN  IF s.ret # "OK" THEN s
      ELSE IF ~ssl_tls13_is_supported_versions_ext_present(m)
        THEN IF c.min_tls_version > TLS1_2 \/ ssl_tls13_is_downgrade_negotiation(m)
               THEN Fail(s, "ILLEGAL_PARAMETER", "illegal_parameter")
               ELSE LET t == mbedtls_ssl_add_hs_msg_to_checksum(
                               [s EXCEPT !.tls_version = TLS1_2,
                                         !.coordinate = "TLS1_2"],
                               "server_hello")
                    IN  IF mbedtls_ssl_conf_tls13_some_ephemeral_enabled(c)
                          THEN ssl_tls13_reset_key_share(t)
                          ELSE t
      ELSE IF ssl_server_hello_is_hrr(m)
        THEN LET h == [s EXCEPT !.coordinate = "HRR"]
             IN  IF ~mbedtls_ssl_conf_tls13_some_ephemeral_enabled(c)
                   THEN Fail(h, "ILLEGAL_PARAMETER", "illegal_parameter")
                 ELSE [h EXCEPT !.hello_retry_request_count = @ + 1]
      ELSE [s EXCEPT !.coordinate = "HELLO"]

\* leaves the classification in the field coordinate: "HELLO", "HRR", "TLS1_2"
ssl_tls13_server_hello_coordinate(c, s0, m) ==
  LET s == mbedtls_ssl_tls13_fetch_handshake_msg(s0, m, "server_hello")
  IN  IF s.ret # "OK" THEN s
      ELSE IF ~ssl_tls13_is_supported_versions_ext_present(m)
        THEN IF c.min_tls_version > TLS1_2 \/ ssl_tls13_is_downgrade_negotiation(m)
               THEN Fail(s, "ILLEGAL_PARAMETER", "illegal_parameter")
               ELSE LET t == mbedtls_ssl_add_hs_msg_to_checksum(
                               [s EXCEPT !.tls_version = TLS1_2,
                                         !.coordinate = "TLS1_2"],
                               "server_hello")
                    IN  IF mbedtls_ssl_conf_tls13_some_ephemeral_enabled(c)
                          THEN ssl_tls13_reset_key_share(t)
                          ELSE t
      ELSE IF ssl_server_hello_is_hrr(m)
        THEN LET h == [s EXCEPT !.coordinate = "HRR"]
             IN  IF h.hello_retry_request_count > 0
                   THEN Fail(h, "UNEXPECTED_MESSAGE", "unexpected_message")
                 ELSE IF ~mbedtls_ssl_conf_tls13_some_ephemeral_enabled(c)
                   THEN Fail(h, "ILLEGAL_PARAMETER", "illegal_parameter")
                 ELSE [h EXCEPT !.hello_retry_request_count = @ + 1]
      ELSE [s EXCEPT !.coordinate = "HELLO"]

ssl_tls13_check_server_hello_session_id_echo(s, m) ==
  IF m.legacy_session_id_echo # "echo"
    THEN Fail(s, "ILLEGAL_PARAMETER", "illegal_parameter")
    ELSE s

ssl_tls13_cipher_suite_is_offered(c, cipher_suite) ==
  \E i \in 1..Len(c.ciphersuite_list) : c.ciphersuite_list[i] = cipher_suite

ssl_tls13_parse_supported_versions_ext(s, ext) ==
  IF ext.version # TLS1_3
    THEN Fail(s, "ILLEGAL_PARAMETER", "illegal_parameter")
    ELSE s

\* the old cookie is freed and the new one copied
ssl_tls13_parse_cookie_ext(s, ext) ==
  [s EXCEPT !.hrr_cookie = << ext.cookie >>]

\* faulty variant: the group already offered is not refused
ssl_tls13_parse_hrr_key_share_ext_any_configured(c, s, ext) ==
  LET selected_group == ext.group
      found == \E i \in 1..Len(c.group_list) :
                  /\ mbedtls_ecp_curve_info_from_tls_id(c.group_list[i])
                  /\ c.group_list[i] = selected_group
  IN  IF ~found
        THEN Fail(s, "ILLEGAL_PARAMETER", "illegal_parameter")
        ELSE [s EXCEPT !.offered_group_id = selected_group]

ssl_tls13_parse_hrr_key_share_ext(c, s, ext) ==
  LET selected_group == ext.group
      found == \E i \in 1..Len(c.group_list) :
                  /\ mbedtls_ecp_curve_info_from_tls_id(c.group_list[i])
                  /\ c.group_list[i] = selected_group
  IN  IF ~found \/ selected_group = s.offered_group_id
        THEN Fail(s, "ILLEGAL_PARAMETER", "illegal_parameter")
        ELSE [s EXCEPT !.offered_group_id = selected_group]

\* sizeof( handshake->ecdh_psa_peerkey ): MBEDTLS_PSA_MAX_EC_PUBKEY_LENGTH
\* (ssl_misc.h)
PeerKeyCapacity == 133

\* the extension data of a key_share as lengths: data_len bytes in all, of
\* which 2 are the group, and key_exchange_length as the 2 bytes behind the
\* group read, which lie behind the extension data when data_len < 4.  An
\* extension that carries no lengths is a well-formed one for its group
KeyShareData(ext) ==
  IF "data_len" \in DOMAIN ext
    THEN [data_len |-> ext.data_len,
          key_exchange_length |-> ext.key_exchange_length]
    ELSE [data_len |-> 4 + PublicKeyLen(ext.group),
          key_exchange_length |-> PublicKeyLen(ext.group)]

\* buf_len is a size_t: buf_len - 2 wraps for buf_len < 2 to a value no
\* uint16_t exceeds.  memcpy then copies peerkey_len bytes whatever lies at
\* its source and whatever the destination holds; peerkey_copied counts them
ssl_tls13_read_public_ecdhe_share(s, buf_len, peerkey_len) ==
  IF buf_len >= 2 /\ peerkey_len > buf_len - 2
    THEN FailNoAlert(s, "DECODE_ERROR")
    ELSE [s EXCEPT !.ecdh_psa_peerkey_len = peerkey_len,
                   !.peerkey_copied = peerkey_len]

ssl_tls13_parse_key_share_ext(s, ext) ==
  LET data == KeyShareData(ext)
  IN  IF data.data_len < 2
        THEN Fail(s, "DECODE_ERROR", "decode_error")
      ELSE IF s.offered_group_id # ext.group
        THEN Fail(s, "HANDSHAKE_FAILURE", "handshake_failure")
      ELSE IF mbedtls_ssl_tls13_named_group_is_ecdhe(ext.group)
        THEN IF ~mbedtls_ecp_curve_info_from_tls_id(ext.group)
               THEN FailNoAlert(s, "INTERNAL_ERROR")
               ELSE LET r == ssl_tls13_read_public_ecdhe_share(
                               s, data.data_len - 2, data.key_exchange_length)
                    IN  IF r.ret # "OK" THEN r
                        ELSE [r EXCEPT !.extensions_present = @ \cup {EXT_KEY_SHARE}]
      ELSE FailNoAlert(s, "INTERNAL_ERROR")

\* an out-of-range identity is answered by mbedtls_ssl_send_alert_message,
\* which writes the alert at once instead of pending it
ssl_tls13_parse_server_psk_identity_ext(c, s, ext) ==
  IF ~mbedtls_ssl_get_psk_to_offer(c) THEN FailNoAlert(s, "HANDSHAKE_FAILURE")
  ELSE IF ext.selected_identity > 0
    THEN FailNoAlert(WriteRecord(s, [hs_type |-> "alert",
                                     alert |-> "illegal_parameter"]),
                     "ILLEGAL_PARAMETER")
  ELSE [s EXCEPT !.psk_set = TRUE,
                 !.extensions_present = @ \cup {EXT_PRE_SHARED_KEY}]

\* faulty variant: an extension of another type is skipped
ParseServerHelloExt_ignore_unknown(c, s, ext, is_hrr) ==
  CASE ext.type = EXT_COOKIE ->
         IF ~is_hrr
           THEN Fail(s, "UNSUPPORTED_EXTENSION", "unsupported_extension")
           ELSE ssl_tls13_parse_cookie_ext(s, ext)
    [] ext.type = EXT_SUPPORTED_VERSIONS ->
         ssl_tls13_parse_supported_versions_ext(s, ext)
    [] ext.type = EXT_PRE_SHARED_KEY ->
         IF is_hrr
           THEN Fail(s, "UNSUPPORTED_EXTENSION", "unsupported_extension")
           ELSE ssl_tls13_parse_server_psk_identity_ext(c, s, ext)
    [] ext.type = EXT_KEY_SHARE ->
         IF ~mbedtls_ssl_conf_tls13_some_ephemeral_enabled(c)
           THEN Fail(s, "UNSUPPORTED_EXTENSION", "unsupported_extension")
         ELSE IF is_hrr THEN ssl_tls13_parse_hrr_key_share_ext(c, s, ext)
         ELSE ssl_tls13_parse_key_share_ext(s, ext)
    [] OTHER -> s

\* one turn of the switch over extension_type in ssl_tls13_parse_server_hello
ParseServerHelloExt(c, s, ext, is_hrr) ==
  CASE ext.type = EXT_COOKIE ->
         IF ~is_hrr
           THEN Fail(s, "UNSUPPORTED_EXTENSION", "unsupported_extension")
           ELSE ssl_tls13_parse_cookie_ext(s, ext)
    [] ext.type = EXT_SUPPORTED_VERSIONS ->
         ssl_tls13_parse_supported_versions_ext(s, ext)
    [] ext.type = EXT_PRE_SHARED_KEY ->
         IF is_hrr
           THEN Fail(s, "UNSUPPORTED_EXTENSION", "unsupported_extension")
           ELSE ssl_tls13_parse_server_psk_identity_ext(c, s, ext)
    [] ext.type = EXT_KEY_SHARE ->
         IF ~mbedtls_ssl_conf_tls13_some_ephemeral_enabled(c)
           THEN Fail(s, "UNSUPPORTED_EXTENSION", "unsupported_extension")
         ELSE IF is_hrr THEN ssl_tls13_parse_hrr_key_share_ext(c, s, ext)
         ELSE ssl_tls13_parse_key_share_ext(s, ext)
    [] OTHER -> Fail(s, "UNSUPPORTED_EXTENSION", "unsupported_extension")

\* the while loop over the extensions: stops at the first failure
RECURSIVE ParseServerHelloExts(_, _, _, _)
ParseServerHelloExts(c, s, exts, is_hrr) ==
  IF exts = << >> \/ s.ret # "OK" THEN s
  ELSE ParseServerHelloExts(c, ParseServerHelloExt(c, s, Head(exts), is_hrr),
                            Tail(exts), is_hrr)

\* faulty variant: the suite is not looked up in the list the client offered
ServerHelloCiphersuiteAccepted_not_offered(c, s, cipher_suite, is_hrr) ==
  /\ mbedtls_ssl_validate_ciphersuite(mbedtls_ssl_ciphersuite_from_id(cipher_suite))
  /\ ~( ~is_hrr /\ s.hello_retry_request_count > 0
        /\ cipher_suite # s.ciphersuite )

\* TRUE when the ciphersuite field passes the checks of the parser
ServerHelloCiphersuiteAccepted(c, s, cipher_suite, is_hrr) ==
  /\ mbedtls_ssl_validate_ciphersuite(mbedtls_ssl_ciphersuite_from_id(cipher_suite))
  /\ ssl_tls13_cipher_suite_is_offered(c, cipher_suite)
  /\ ~( ~is_hrr /\ s.hello_retry_request_count > 0
        /\ cipher_suite # s.ciphersuite )

ssl_tls13_parse_server_hello(c, s, m, is_hrr) ==
  IF m.legacy_version # TLS1_2
    THEN Fail(s, "BAD_PROTOCOL_VERSION", "protocol_version")
  ELSE LET e == ssl_tls13_check_server_hello_session_id_echo(s, m)
       IN  IF e.ret # "OK" THEN e
           ELSE IF ~ServerHelloCiphersuiteAccepted(c, s, m.cipher_suite, is_hrr)
             THEN Fail(s, "ILLEGAL_PARAMETER", "illegal_parameter")
           ELSE LET t == [s EXCEPT !.ciphersuite_info = m.cipher_suite,
                                   !.ciphersuite = m.cipher_suite]
                IN  IF m.legacy_compression_method # 0
                      THEN Fail(t, "ILLEGAL_PARAMETER", "illegal_parameter")
                      ELSE ParseServerHelloExts(c, t, m.exts, is_hrr)

\* mbedtls_ssl_session_reset_msg_layer (ssl_tls.c): both directions back to
\* no transform, and the application transform of the context freed
mbedtls_ssl_session_reset_msg_layer(s) ==
  [s EXCEPT !.transform_in = "none", !.transform_out = "none",
            !.transform_application = FALSE]

\* faulty variant: the transcript is left as it is
mbedtls_ssl_reset_transcript_for_hrr_keep(s) ==
  [s EXCEPT !.transcript = @]

\* faulty variant: the message_hash message does not depend on what the
\* transcript held
mbedtls_ssl_reset_transcript_for_hrr_blank(s) ==
  [s EXCEPT !.transcript = << "message_hash" >>,
            !.hash_transcript = << [hash_len |-> 0, covers |-> << >>, after |-> << >>] >>]

\* the transcript becomes the one message_hash message of what it held.  The
\* digest mbedtls_ssl_get_handshake_transcript returns is kept as what it
\* covers (the messages hashed so far, after the message_hash that headed
\* them if there was one), so that two digests are equal only when they
\* cover the same transcript; hash_len is its length under the MAC of the
\* ciphersuite
mbedtls_ssl_reset_transcript_for_hrr(s) ==
  LET ciphersuite_info == mbedtls_ssl_ciphersuite_from_id(s.ciphersuite)
      hash_transcript == [hash_len |-> ciphersuite_info.hash_len,
                          covers |-> s.transcript,
                          after |-> s.hash_transcript]
  IN  [s EXCEPT !.transcript = << "message_hash" >>,
                !.hash_transcript = << hash_transcript >>]

\* what the accepted HelloRetryRequest asked for: its ciphersuite, its
\* cookie (<< >> when it carried none) and its group (0 when it named none)
HrrRequest(m) ==
  LET ck == SelectSeq(m.exts, LAMBDA e : e.type = EXT_COOKIE)
      ks == SelectSeq(m.exts, LAMBDA e : e.type = EXT_KEY_SHARE)
  IN  [ cipher_suite |-> m.cipher_suite,
        cookie |-> IF ck = << >> THEN << >> ELSE << ck[Len(ck)].cookie >>,
        group |-> IF ks = << >> THEN 0 ELSE ks[Len(ks)].group ]

ssl_tls13_postprocess_hrr(c, s, m) ==
  ssl_tls13_reset_key_share(
    mbedtls_ssl_session_reset_msg_layer(
      mbedtls_ssl_handshake_set_state([s EXCEPT !.hrr = << HrrRequest(m) >>],
        IF c.compatibility_mode THEN "CLIENT_CCS_BEFORE_2ND_CLIENT_HELLO"
                                ELSE "CLIENT_HELLO")))

\* the switch over the extensions received; "NONE" for the default branch
KeyExchangeFromExtensions(extensions_present) ==
  LET got == extensions_present \cap {EXT_PRE_SHARED_KEY, EXT_KEY_SHARE}
  IN  CASE got = {EXT_PRE_SHARED_KEY} -> "PSK"
        [] got = {EXT_KEY_SHARE} -> "EPHEMERAL"
        [] got = {EXT_PRE_SHARED_KEY, EXT_KEY_SHARE} -> "PSK_EPHEMERAL"
        [] OTHER -> "NONE"

\* faulty variant: the state advances without the inbound transform
ssl_tls13_postprocess_server_hello_no_inbound(s) ==
  LET kex == KeyExchangeFromExtensions(s.extensions_present)
  IN  IF kex = "NONE"
        THEN Fail(s, "HANDSHAKE_FAILURE", "handshake_failure")
        ELSE mbedtls_ssl_handshake_set_state(
               [mbedtls_ssl_tls13_key_schedule_stage_early(s)
                  EXCEPT !.key_exchange = kex,
                         !.key_schedule = "handshake",
                         !.transform_handshake = TRUE],
               "ENCRYPTED_EXTENSIONS")

\* the cleanup of a failure pends handshake_failure and frees the transform,
\* if one was allocated, with mbedtls_free
ssl_tls13_postprocess_server_hello(s) ==
  LET kex == KeyExchangeFromExtensions(s.extensions_present)
      mode == [s EXCEPT !.key_exchange = kex]
      secret == [mbedtls_ssl_tls13_key_schedule_stage_early(mode)
                   EXCEPT !.key_schedule = "handshake"]
  IN  IF kex = "NONE"
        THEN Fail(s, "HANDSHAKE_FAILURE", "handshake_failure")
      ELSE IF Fails(s, "server_hello", "key_schedule")
        THEN Fail(mode, LibraryError, "handshake_failure")
      ELSE IF Fails(s, "server_hello", "generate_keys")
        THEN Fail(secret, LibraryError, "handshake_failure")
      ELSE IF Fails(s, "server_hello", "calloc")
        THEN Fail(secret, "ALLOC_FAILED", "handshake_failure")
      ELSE IF Fails(s, "server_hello", "populate_transform")
        THEN Fail(TransformFate(secret, "handshake", "freed"),
                  LibraryError, "handshake_failure")
      ELSE mbedtls_ssl_handshake_set_state(
             mbedtls_ssl_set_inbound_transform(
               TransformFate([secret EXCEPT !.transform_handshake = TRUE],
                             "handshake", "installed"),
               "handshake"),
             "ENCRYPTED_EXTENSIONS")

\* faulty variant: the bits set while the ClientHello was written are kept
ServerHelloKeepExtensions(s) ==
  [s EXCEPT !.coordinate = "NONE"]

\* the reset of extensions_present that opens the handler
ServerHelloResetExtensions(s) ==
  [s EXCEPT !.extensions_present = {}, !.coordinate = "NONE"]

ssl_tls13_process_server_hello(c, s0, m) ==
  LET co == ssl_tls13_server_hello_coordinate(c, ServerHelloResetExtensions(s0), m)
  IN  IF co.ret # "OK" \/ co.coordinate = "TLS1_2" THEN co
      ELSE LET is_hrr == (co.coordinate = "HRR")
               pa == ssl_tls13_parse_server_hello(c, co, m, is_hrr)
           IN  IF pa.ret # "OK" THEN pa
               ELSE LET tr == mbedtls_ssl_add_hs_msg_to_checksum(
                                IF is_hrr
                                  THEN mbedtls_ssl_reset_transcript_for_hrr(pa)
                                  ELSE pa,
                                "server_hello")
                    IN  IF is_hrr THEN ssl_tls13_postprocess_hrr(c, tr, m)
                        ELSE ssl_tls13_postprocess_server_hello(tr)

(***************************************************************************)
(* EncryptedExtensions.                                                    *)
(***************************************************************************)
\* mbedtls_ssl_tls13_kex_with_psk (ssl_misc.h)
mbedtls_ssl_tls13_kex_with_psk(s) ==
  s.key_exchange \in {"PSK", "PSK_EPHEMERAL"}

\* the big-endian 16-bit number at position i of buf (MBEDTLS_GET_UINT16_BE)
GetUint16BE(buf, i) ==
  buf[i] * 256 + buf[i + 1]

\* some protocol of the list has the length name_len and the bytes that
\* memcmp finds at buf + 3; memory is the extension data followed by the
\* bytes that lie behind it in the input buffer
AlpnListHas(list, memory, name_len) ==
  \E i \in 1..Len(list) :
    /\ name_len = Len(list[i])
    /\ 3 + name_len <= Len(memory)
    /\ SubSeq(memory, 4, 3 + name_len) = list[i]

\* the protocol the loop over conf->alpn_list stops at
AlpnFirstMatch(list, memory, name_len) ==
  LET i == CHOOSE k \in 1..Len(list) :
             /\ AlpnListHas(<< list[k] >>, memory, name_len)
             /\ \A j \in 1..(k - 1) :
                  ~AlpnListHas(<< list[j] >>, memory, name_len)
  IN  list[i]

\* ssl_tls13_parse_alpn_ext (builds with MBEDTLS_SSL_ALPN); an alpn_list of
\* << >> is the NULL of a client that offered no protocol, and beyond holds
\* the bytes behind the extension data
ssl_tls13_parse_alpn_ext(c, s, buf, beyond) ==
  IF c.alpn_list = << >> THEN FailNoAlert(s, "BAD_INPUT_DATA")
  ELSE IF Len(buf) < 4 THEN Fail(s, "DECODE_ERROR", "decode_error")
  ELSE LET list_len == GetUint16BE(buf, 1)
           name_len == buf[3]
       IN  IF Len(buf) - 2 < list_len
             THEN Fail(s, "DECODE_ERROR", "decode_error")
           ELSE IF list_len = 0 \/ Len(buf) - 3 < list_len - 1
             THEN Fail(s, "DECODE_ERROR", "decode_error")
           ELSE IF AlpnListHas(c.alpn_list, buf \o beyond, name_len)
             THEN [s EXCEPT !.alpn_chosen =
                              AlpnFirstMatch(c.alpn_list, buf \o beyond, name_len)]
           ELSE FailNoAlert(s, "BAD_INPUT_DATA")

\* mbedtls_ssl_tls13_some_psk_enabled (ssl_misc.h)
mbedtls_ssl_tls13_some_psk_enabled(s) ==
  s.key_exchange \in {"PSK", "PSK_EPHEMERAL"}

\* faulty variant: the extension is accepted from a server that was not
\* offered early data
ssl_tls13_parse_encrypted_extensions_early_data_ext_unasked(s, ext) ==
  IF ext.len # 0 THEN FailNoAlert(s, "DECODE_ERROR")
  ELSE [s EXCEPT !.early_data_status = "ACCEPTED"]

ssl_tls13_parse_encrypted_extensions_early_data_ext(s, ext) ==
  IF s.early_data # "ON" THEN FailNoAlert(s, "ILLEGAL_PARAMETER")
  ELSE IF ext.len # 0 THEN FailNoAlert(s, "DECODE_ERROR")
  ELSE [s EXCEPT !.early_data_status = "ACCEPTED"]

EXT_SUPPORTED_GROUPS == 10

RECURSIVE ssl_tls13_parse_encrypted_extensions(_, _)
ssl_tls13_parse_encrypted_extensions(s, exts) ==
  IF exts = << >> \/ s.ret # "OK" THEN s
  ELSE LET ext == Head(exts)
           n == CASE ext.type = EXT_SUPPORTED_GROUPS -> s
                  [] ext.type = EXT_EARLY_DATA ->
                       ssl_tls13_parse_encrypted_extensions_early_data_ext(s, ext)
                  [] OTHER -> Fail(s, "UNSUPPORTED_EXTENSION", "unsupported_extension")
       IN  ssl_tls13_parse_encrypted_extensions(n, Tail(exts))

\* faulty variant: the certificate states follow in every mode
ssl_tls13_postprocess_encrypted_extensions_always_cert(s) ==
  mbedtls_ssl_handshake_set_state(s, "CERTIFICATE_REQUEST")

ssl_tls13_postprocess_encrypted_extensions(s) ==
  IF mbedtls_ssl_tls13_some_psk_enabled(s)
    THEN mbedtls_ssl_handshake_set_state(s, "SERVER_FINISHED")
    ELSE mbedtls_ssl_handshake_set_state(s, "CERTIFICATE_REQUEST")

ssl_tls13_process_encrypted_extensions(s0, m) ==
  LET s == mbedtls_ssl_tls13_fetch_handshake_msg(s0, m, "encrypted_extensions")
  IN  IF s.ret # "OK" THEN s
      ELSE LET pa == ssl_tls13_parse_encrypted_extensions(s, m.exts)
           IN  IF pa.ret # "OK" THEN pa
               ELSE ssl_tls13_postprocess_encrypted_extensions(
                      mbedtls_ssl_add_hs_msg_to_checksum(pa, "encrypted_extensions"))

(***************************************************************************)
(* CertificateRequest, Certificate, CertificateVerify of the server.       *)
(* The X.509 and signature checks are outcomes carried by the message.     *)
(***************************************************************************)
\* a context of one byte or more is copied to the handshake before the
\* extensions are read; certificate_request_context_len of the handshake
\* is not assigned
ssl_tls13_parse_certificate_request(s, m) ==
  LET certificate_request_context_len == Len(m.context)
      t == IF certificate_request_context_len > 0
             THEN [s EXCEPT !.certificate_request_context = m.context]
             ELSE s
  IN  IF m.sig_alg_exts # 1
        THEN Fail(t, "DECODE_ERROR", "decode_error")
        ELSE [t EXCEPT !.client_auth = TRUE]

\* the record read by the coordination stays current for the next handler
ssl_tls13_process_certificate_request(s, m) ==
  IF mbedtls_ssl_tls13_kex_with_psk(s)
    THEN mbedtls_ssl_handshake_set_state(s, "SERVER_CERTIFICATE")
  ELSE IF m.hs_type = "certificate_request"
    THEN LET pa == ssl_tls13_parse_certificate_request(s, m)
         IN  IF pa.ret # "OK" THEN pa
             ELSE mbedtls_ssl_handshake_set_state(
                    mbedtls_ssl_add_hs_msg_to_checksum(pa, "certificate_request"),
                    "SERVER_CERTIFICATE")
  ELSE mbedtls_ssl_handshake_set_state([s EXCEPT !.kept = << m >>],
                                       "SERVER_CERTIFICATE")

mbedtls_ssl_tls13_process_certificate(s0, m) ==
  IF mbedtls_ssl_tls13_kex_with_psk(s0) THEN s0
  ELSE LET s == mbedtls_ssl_tls13_fetch_handshake_msg(
                  [s0 EXCEPT !.kept = << >>], m, "certificate")
       IN  IF s.ret # "OK" THEN s
           ELSE IF ~m.valid THEN Fail(s, "BAD_CERTIFICATE", "bad_certificate")
           ELSE mbedtls_ssl_add_hs_msg_to_checksum(
                  [s EXCEPT !.peer_cert = TRUE], "certificate")

ssl_tls13_process_server_certificate(s, m) ==
  LET r == mbedtls_ssl_tls13_process_certificate(s, m)
  IN  IF r.ret # "OK" THEN r
      ELSE mbedtls_ssl_handshake_set_state(r, "CERTIFICATE_VERIFY")

\* faulty variant: the CertificateVerify is never waited for
ssl_tls13_read_certificate_verify_coordinate_skip(s) ==
  FALSE

\* TRUE for SSL_CERTIFICATE_VERIFY_READ
ssl_tls13_read_certificate_verify_coordinate(s) ==
  ~mbedtls_ssl_tls13_kex_with_psk(s) /\ s.peer_cert

\* faulty variant: the scheme is not looked up among the offered ones
ssl_tls13_parse_certificate_verify_any_scheme(s, m) ==
  IF ~m.pk_can_do
    THEN Fail(s, "HANDSHAKE_FAILURE", "decrypt_error")
  ELSE IF ~m.pk_verify
    THEN Fail(s, "HANDSHAKE_FAILURE", "decrypt_error")
  ELSE s

\* the three checks of the parser, each of which leaves through the label
\* error; their outcomes are carried by the message
ssl_tls13_parse_certificate_verify(s, m) ==
  IF ~m.sig_alg_is_offered
    THEN Fail(s, "HANDSHAKE_FAILURE", "decrypt_error")
  ELSE IF ~m.pk_can_do
    THEN Fail(s, "HANDSHAKE_FAILURE", "decrypt_error")
  ELSE IF ~m.pk_verify
    THEN Fail(s, "HANDSHAKE_FAILURE", "decrypt_error")
  ELSE s

mbedtls_ssl_tls13_process_certificate_verify(s0, m) ==
  IF ~ssl_tls13_read_certificate_verify_coordinate(s0) THEN s0
  ELSE LET s == mbedtls_ssl_tls13_fetch_handshake_msg(s0, m, "certificate_verify")
       IN  IF s.ret # "OK" THEN s
           ELSE LET pa == ssl_tls13_parse_certificate_verify(s, m)
                IN  IF pa.ret # "OK" THEN pa
                    ELSE mbedtls_ssl_add_hs_msg_to_checksum(pa, "certificate_verify")

ssl_tls13_process_certificate_verify(s, m) ==
  LET r == mbedtls_ssl_tls13_process_certificate_verify(s, m)
  IN  IF r.ret # "OK" THEN r
      ELSE mbedtls_ssl_handshake_set_state(r, "SERVER_FINISHED")

(***************************************************************************)
(* Finished of the server (ssl_tls13_generic.c).                           *)
(***************************************************************************)
\* mbedtls_ssl_tls13_calculate_verify_data (ssl_tls13_keys.c): an HMAC over
\* the transcript hash, as long as the hash of the negotiated ciphersuite;
\* the bytes stand for a value fixed by the transcript and the sender
mbedtls_ssl_tls13_calculate_verify_data(s, from) ==
  [i \in 1..mbedtls_ssl_ciphersuite_from_id(s.ciphersuite).hash_len |->
     (31 * Len(s.transcript) + 7 * i + (IF from = "server" THEN 1 ELSE 2)) % 256]

\* mbedtls_ct_memcmp (constant_time.c): TRUE when the first n bytes differ
mbedtls_ct_memcmp(a, b, n) ==
  \E i \in 1..n : a[i] # b[i]

\* faulty variant: the comparison stops one byte short
ssl_tls13_parse_finished_message_short_compare(s, expected_verify_data, m) ==
  IF Len(m.verify_data) # Len(expected_verify_data)
    THEN Fail(s, "DECODE_ERROR", "decode_error")
  ELSE IF mbedtls_ct_memcmp(m.verify_data, expected_verify_data,
                            Len(expected_verify_data) - 1)
    THEN Fail(s, "HANDSHAKE_FAILURE", "decrypt_error")
  ELSE s

ssl_tls13_parse_finished_message(s, expected_verify_data, m) ==
  IF Len(m.verify_data) # Len(expected_verify_data)
    THEN Fail(s, "DECODE_ERROR", "decode_error")
  ELSE IF mbedtls_ct_memcmp(m.verify_data, expected_verify_data,
                            Len(expected_verify_data))
    THEN Fail(s, "HANDSHAKE_FAILURE", "decrypt_error")
  ELSE s

\* the application transform is derived and stored in the context, not yet
\* used by the record layer; the cleanup of a failure is that of
\* ssl_tls13_postprocess_server_hello
ssl_tls13_postprocess_server_finished_message(s) ==
  LET secret == [s EXCEPT !.key_schedule = "application"]
  IN  IF Fails(s, "server_finished", "key_schedule")
        THEN Fail(s, LibraryError, "handshake_failure")
      ELSE IF Fails(s, "server_finished", "generate_keys")
        THEN Fail(secret, LibraryError, "handshake_failure")
      ELSE IF Fails(s, "server_finished", "calloc")
        THEN Fail(secret, "ALLOC_FAILED", "handshake_failure")
      ELSE IF Fails(s, "server_finished", "populate_transform")
        THEN Fail(TransformFate(secret, "application", "freed"),
                  LibraryError, "handshake_failure")
      ELSE TransformFate([secret EXCEPT !.transform_application = TRUE],
                         "application", "installed")

mbedtls_ssl_tls13_process_finished_message(s0, m) ==
  LET s == mbedtls_ssl_tls13_fetch_handshake_msg(s0, m, "finished")
  IN  IF s.ret # "OK" THEN s
      ELSE LET expected == mbedtls_ssl_tls13_calculate_verify_data(s, "server")
               pa == ssl_tls13_parse_finished_message(s, expected, m)
           IN  IF pa.ret # "OK" THEN pa
               ELSE ssl_tls13_postprocess_server_finished_message(
                      mbedtls_ssl_add_hs_msg_to_checksum(pa, "finished"))

ssl_tls13_process_server_finished(s, m) ==
  LET r == mbedtls_ssl_tls13_process_finished_message(s, m)
  IN  IF r.ret # "OK" THEN r
      ELSE mbedtls_ssl_handshake_set_state(r, "END_OF_EARLY_DATA")

(***************************************************************************)
(* The client's second flight.                                             *)
(***************************************************************************)
\* faulty variant: the answer of the server is not looked at
ssl_tls13_write_end_of_early_data_coordinate_if_offered(s) ==
  s.early_data = "ON"

\* TRUE for SSL_END_OF_EARLY_DATA_WRITE
ssl_tls13_write_end_of_early_data_coordinate(s) ==
  s.early_data = "ON" /\ s.early_data_status = "ACCEPTED"

ssl_tls13_write_end_of_early_data_postprocess(c, s) ==
  mbedtls_ssl_handshake_set_state(s,
    IF c.compatibility_mode THEN "CLIENT_CCS_AFTER_SERVER_FINISHED"
                            ELSE "CLIENT_CERTIFICATE")

ssl_tls13_write_end_of_early_data_process(c, s) ==
  IF ssl_tls13_write_end_of_early_data_coordinate(s)
    THEN WriteRecord(
           ssl_tls13_write_end_of_early_data_postprocess(c,
             mbedtls_ssl_add_hs_msg_to_checksum(s, "end_of_early_data")),
           [hs_type |-> "end_of_early_data", keys |-> s.transform_out])
    ELSE ssl_tls13_write_end_of_early_data_postprocess(c, s)

\* the head of the Certificate message: certificate_request_context_len
\* bytes of the context kept in the handshake
ssl_tls13_write_certificate_body(s) ==
  SubSeq(s.certificate_request_context, 1, s.certificate_request_context_len)

\* MBEDTLS_SSL_CHK_BUF_PTR( cur, end, need ) with cur and end as offsets
\* from buf: TRUE when the check passes
MBEDTLS_SSL_CHK_BUF_PTR(cur, end, need) ==
  cur <= end /\ need <= end - cur

\* the offsets n bytes stored at p occupy
BytesAt(p, n) ==
  p .. (p + n - 1)

\* MBEDTLS_PUT_UINT24_BE( n, p, 0 ) stores 3 bytes at p
MBEDTLS_PUT_UINT24_BE(s, p) ==
  [s EXCEPT !.out_buf.written = @ \cup BytesAt(p, 3)]

\* the while loop over the chain: crt is the sequence of the raw lengths of
\* the certificates left, p the write position; each turn checks for
\* cert_data_len + 3 + 2 bytes, stores the length, the certificate and a
\* 3-byte zero for the extensions, and advances by 3, cert_data_len and 2.
\* Returns the context and the final position
RECURSIVE WriteCertificateEntries(_, _, _)
WriteCertificateEntries(s, crt, p) ==
  IF crt = << >> THEN << s, p >>
  ELSE LET cert_data_len == Head(crt)
       IN  IF ~MBEDTLS_SSL_CHK_BUF_PTR(p, s.out_buf.size, cert_data_len + 3 + 2)
             THEN << FailNoAlert(s, "BUFFER_TOO_SMALL"), p >>
           ELSE LET len == MBEDTLS_PUT_UINT24_BE(s, p)
                    data == [len EXCEPT !.out_buf.written =
                                          @ \cup BytesAt(p + 3, cert_data_len)]
                    exts == MBEDTLS_PUT_UINT24_BE(data, p + 3 + cert_data_len)
                IN  WriteCertificateEntries(exts, Tail(crt),
                                            p + 3 + cert_data_len + 2)

\* the whole body written into a buffer of buf_len bytes: the context with
\* its length byte, the 3-byte length of the list (filled in last) and the
\* entries
ssl_tls13_write_certificate_body_buf(s0, crt, buf_len) ==
  LET s == [s0 EXCEPT !.out_buf = [size |-> buf_len, written |-> {}, out_len |-> 0]]
      certificate_request_context_len == s.certificate_request_context_len
  IN  IF ~MBEDTLS_SSL_CHK_BUF_PTR(0, buf_len, certificate_request_context_len + 1)
        THEN FailNoAlert(s, "BUFFER_TOO_SMALL")
      ELSE LET ctx == [s EXCEPT !.out_buf.written =
                          @ \cup BytesAt(0, 1 + certificate_request_context_len)]
               p_certificate_list_len == 1 + certificate_request_context_len
           IN  IF ~MBEDTLS_SSL_CHK_BUF_PTR(p_certificate_list_len, buf_len, 3)
                 THEN FailNoAlert(ctx, "BUFFER_TOO_SMALL")
               ELSE LET w == WriteCertificateEntries(ctx, crt,
                                                     p_certificate_list_len + 3)
                    IN  IF w[1].ret # "OK" THEN w[1]
                        ELSE [MBEDTLS_PUT_UINT24_BE(w[1], p_certificate_list_len)
                                EXCEPT !.out_buf.out_len = w[2]]

mbedtls_ssl_tls13_write_certificate(c, s) ==
  IF mbedtls_ssl_tls13_kex_with_psk(s) THEN s
  ELSE WriteRecord(mbedtls_ssl_add_hs_msg_to_checksum(s, "certificate"),
                   [hs_type |-> "certificate", keys |-> s.transform_out,
                    entries |-> IF c.own_cert THEN 1 ELSE 0,
                    context |-> ssl_tls13_write_certificate_body(s)])

ssl_tls13_write_client_certificate(c, s0) ==
  LET s == mbedtls_ssl_set_outbound_transform(s0, "handshake")
      w == IF s.client_auth THEN mbedtls_ssl_tls13_write_certificate(c, s) ELSE s
  IN  mbedtls_ssl_handshake_set_state(w,
        IF s.client_auth /\ c.own_cert THEN "CLIENT_CERTIFICATE_VERIFY"
                                       ELSE "CLIENT_FINISHED")

mbedtls_ssl_tls13_write_certificate_verify(s) ==
  IF mbedtls_ssl_tls13_kex_with_psk(s) THEN s
  ELSE WriteRecord(mbedtls_ssl_add_hs_msg_to_checksum(s, "certificate_verify"),
                   [hs_type |-> "certificate_verify", keys |-> s.transform_out])

ssl_tls13_write_client_certificate_verify(s) ==
  mbedtls_ssl_handshake_set_state(mbedtls_ssl_tls13_write_certificate_verify(s),
                                  "CLIENT_FINISHED")

\* ssl_tls13_finalize_finished_message moves to FLUSH_BUFFERS before the
\* record is handed over
mbedtls_ssl_tls13_write_finished_message(s) ==
  WriteRecord(
    mbedtls_ssl_handshake_set_state(
      mbedtls_ssl_add_hs_msg_to_checksum(s, "finished"), "FLUSH_BUFFERS"),
    [hs_type |-> "finished", keys |-> s.transform_out,
     verify_data |-> mbedtls_ssl_tls13_calculate_verify_data(s, "client")])

ssl_tls13_write_client_finished(s) ==
  mbedtls_ssl_tls13_write_finished_message(s)

\* faulty variant: the wrap-up state is skipped
ssl_tls13_flush_buffers_to_over(s) ==
  mbedtls_ssl_handshake_set_state(s, "HANDSHAKE_OVER")

ssl_tls13_flush_buffers(s) ==
  mbedtls_ssl_handshake_set_state(s, "HANDSHAKE_WRAPUP")

\* faulty variant: the outbound direction is switched first
ssl_tls13_handshake_wrapup_outbound_first(s) ==
  mbedtls_ssl_handshake_set_state(
    mbedtls_ssl_set_inbound_transform(
      mbedtls_ssl_set_outbound_transform(s, "application"), "application"),
    "HANDSHAKE_OVER")

ssl_tls13_handshake_wrapup(s) ==
  mbedtls_ssl_handshake_set_state(
    mbedtls_ssl_set_outbound_transform(
      mbedtls_ssl_set_inbound_transform(s, "application"), "application"),
    "HANDSHAKE_OVER")

(***************************************************************************)
(* NewSessionTicket, handled after the handshake.  The length checks of    *)
(* the parser are outcomes carried by the message in the field shape.      *)
(***************************************************************************)
ssl_tls13_new_session_ticket_early_data_ext_parse(s, ext) ==
  IF ext.size = 4
    THEN [s EXCEPT !.session.max_early_data_size = ext.max_early_data_size,
                   !.session.ticket_flags = @ \cup {"allow_early_data"}]
    ELSE FailNoAlert(s, "BAD_INPUT_DATA")

RECURSIVE ssl_tls13_new_session_ticket_extensions_parse(_, _)
ssl_tls13_new_session_ticket_extensions_parse(s, exts) ==
  IF exts = << >> THEN s
  ELSE LET ext == Head(exts)
       IN  IF ext.framing # "ok" THEN FailNoAlert(s, "BAD_INPUT_DATA")
           ELSE LET n == IF ext.type = EXT_EARLY_DATA
                           THEN ssl_tls13_new_session_ticket_early_data_ext_parse(s, ext)
                           ELSE s
                IN  IF n.ret # "OK" THEN n
                    ELSE ssl_tls13_new_session_ticket_extensions_parse(n, Tail(exts))

ssl_tls13_new_session_ticket_parse(s0, m) ==
  IF m.shape = "short_header" THEN FailNoAlert(s0, "DECODE_ERROR")
  ELSE LET s1 == [s0 EXCEPT !.session.ticket_lifetime = m.ticket_lifetime,
                            !.session.ticket_age_add = m.ticket_age_add]
       IN  IF m.shape \in {"short_nonce", "short_ticket"}
             THEN FailNoAlert(s1, "DECODE_ERROR")
           ELSE LET s2 == [s1 EXCEPT !.session.ticket = m.ticket]
                IN  IF m.shape = "extensions_length"
                      THEN FailNoAlert(s2, "DECODE_ERROR")
                    ELSE LET s3 == ssl_tls13_new_session_ticket_extensions_parse(
                                     s2, m.exts)
                             suite_info == mbedtls_ssl_ciphersuite_from_id(s3.ciphersuite)
                         IN  IF s3.ret # "OK" THEN s3
                             ELSE IF suite_info.id = 0
                               THEN FailNoAlert(s3, "INTERNAL_ERROR")
                             ELSE [s3 EXCEPT
                                     !.session.key_len = suite_info.hash_len,
                                     !.session.ticket_received =
                                        IF s3.have_time THEN s3.clock ELSE @]

ssl_tls13_new_session_ticket_postprocess(s) ==
  mbedtls_ssl_handshake_set_state(s, "HANDSHAKE_OVER")

ssl_tls13_new_session_ticket_process(s0, m) ==
  LET s == mbedtls_ssl_tls13_fetch_handshake_msg(s0, m, "new_session_ticket")
  IN  IF s.ret # "OK" THEN s
      ELSE LET pa == ssl_tls13_new_session_ticket_parse(s, m)
           IN  IF pa.ret # "OK" THEN pa
               ELSE ssl_tls13_new_session_ticket_postprocess(pa)

(***************************************************************************)
(* Messages the server may send.                                           *)
(***************************************************************************)
SeqsUpTo(S, n) ==
  UNION { [1..k -> S] : k \in 0..n }

DowngradeRandom(last) ==
  [i \in 1..(MBEDTLS_SERVER_HELLO_RANDOM_LEN - 8) |-> i]
    \o magic_downgrade_string \o << last >>

PlainRandom ==
  [i \in 1..MBEDTLS_SERVER_HELLO_RANDOM_LEN |-> i]

Randoms ==
  { magic_hrr_string, DowngradeRandom(0), DowngradeRandom(1), PlainRandom }

ServerSuites ==
  { TLS1_3_AES_128_GCM_SHA256, TLS1_3_AES_256_GCM_SHA384,
    TLS_ECDHE_ECDSA_AES_128_GCM_SHA256 }

\* groups a key_share of the server may name: the configured ones and one
\* that is not configured
ServerGroups(c) ==
  { c.group_list[i] : i \in 1..Len(c.group_list) } \cup { SECP384R1 }

ServerHelloExts(c) ==
  { [type |-> EXT_SUPPORTED_VERSIONS, version |-> TLS1_3],
    [type |-> EXT_SUPPORTED_VERSIONS, version |-> TLS1_2],
    [type |-> EXT_COOKIE, cookie |-> << 192, 0, 255 >>],
    [type |-> EXT_PRE_SHARED_KEY, selected_identity |-> 0],
    [type |-> EXT_UNKNOWN] }
  \cup { [type |-> EXT_KEY_SHARE, group |-> g] : g \in ServerGroups(c) }

\* well-formed in the fixed fields, any extensions
ServerHelloPlain(c) ==
  [ hs_type : {"server_hello"},
    legacy_version : {TLS1_2},
    random : Randoms,
    legacy_session_id_echo : {"echo"},
    cipher_suite : ServerSuites,
    legacy_compression_method : {0},
    exts : SeqsUpTo(ServerHelloExts(c), MaxExts) ]

\* defects in the fixed fields, and an out-of-range PSK identity
ServerHelloDefect(c) ==
  [ hs_type : {"server_hello"},
    legacy_version : {TLS1_2, TLS1_3},
    random : Randoms,
    legacy_session_id_echo : {"echo", "other"},
    cipher_suite : {TLS1_3_AES_256_GCM_SHA384},
    legacy_compression_method : {0, 1},
    exts : { << [type |-> EXT_SUPPORTED_VERSIONS, version |-> TLS1_3],
                [type |-> EXT_KEY_SHARE, group |-> c.group_list[1]] >>,
             << [type |-> EXT_SUPPORTED_VERSIONS, version |-> TLS1_2] >>,
             << [type |-> EXT_PRE_SHARED_KEY, selected_identity |-> 1],
                [type |-> EXT_SUPPORTED_VERSIONS, version |-> TLS1_3] >> } ]

Unexpected == [hs_type |-> "unexpected"]

ServerHelloMsgs(c) ==
  ServerHelloPlain(c) \cup ServerHelloDefect(c) \cup {Unexpected}

EncryptedExtensionsExts ==
  { [type |-> EXT_SUPPORTED_GROUPS],
    [type |-> EXT_EARLY_DATA, len |-> 0],
    [type |-> EXT_EARLY_DATA, len |-> 1],
    [type |-> EXT_UNKNOWN] }

EncryptedExtensionsMsgs ==
  [ hs_type : {"encrypted_extensions"},
    exts : SeqsUpTo(EncryptedExtensionsExts, MaxExts - 1) ] \cup {Unexpected}

\* certificate_request_context of a CertificateRequest: empty or two bytes
RequestContexts == { << >>, << 7, 9 >> }

CertificateRequestMsgs ==
  [ hs_type : {"certificate_request"}, sig_alg_exts : 0..2,
    context : RequestContexts ]

CertificateMsgs ==
  [ hs_type : {"certificate"}, valid : BOOLEAN ]

\* sig_alg_is_offered: the scheme is one the client offered; pk_can_do: the
\* key of the peer certificate fits the scheme; pk_verify: the signature
\* verifies
CertificateVerifyMsgs ==
  [ hs_type : {"certificate_verify"},
    sig_alg_is_offered : BOOLEAN,
    pk_can_do : BOOLEAN,
    pk_verify : BOOLEAN ]

\* the expected verify_data, each of its bytes altered in turn, and bodies
\* one byte shorter, one byte longer and empty
FinishedMsgs(expected) ==
  [ hs_type : {"finished"},
    verify_data :
      {expected}
      \cup { [expected EXCEPT ![i] = (@ + 1) % 256] : i \in 1..Len(expected) }
      \cup { SubSeq(expected, 1, Len(expected) - 1), Append(expected, 0), << >> } ]
  \cup {Unexpected}

\* the record the next read returns: the one kept by a coordination step,
\* else any of the set
Incoming(s, msgs) ==
  IF s.kept # << >> THEN { s.kept[1] } ELSE msgs

(***************************************************************************)
(* mbedtls_ssl_tls13_handshake_client_step: one action per case of the     *)
(* switch.  The driver stops calling it once a step has failed, once the   *)
(* handshake is over, or once TLS 1.2 has been negotiated.                 *)
(***************************************************************************)
Running(st) ==
  /\ ssl.state = st
  /\ ssl.ret = "OK"
  /\ ssl.tls_version = TLS1_3

Wrote(s) ==
  /\ ssl' = s
  /\ in_msg' = NoMessage
  /\ UNCHANGED conf

Read(s, m) ==
  /\ ssl' = s
  /\ in_msg' = m
  /\ UNCHANGED conf

HelloRequest ==
  /\ Running("HELLO_REQUEST")
  /\ Wrote(mbedtls_ssl_handshake_set_state(ssl, "CLIENT_HELLO"))

ClientHello ==
  /\ Running("CLIENT_HELLO")
  /\ Wrote(mbedtls_ssl_write_client_hello(conf, ssl))

CcsAfterClientHello ==
  /\ Running("CLIENT_CCS_AFTER_CLIENT_HELLO")
  /\ conf.compatibility_mode
  /\ Wrote(mbedtls_ssl_handshake_set_state(
             mbedtls_ssl_tls13_write_change_cipher_spec(ssl), "EARLY_APP_DATA"))

EarlyAppData ==
  /\ Running("EARLY_APP_DATA")
  /\ Wrote(ssl_tls13_write_early_data_process(conf, ssl))

ServerHello ==
  /\ Running("SERVER_HELLO")
  /\ \E m \in ServerHelloMsgs(conf) :
       Read(ssl_tls13_process_server_hello(conf, ssl, m), m)

CcsBefore2ndClientHello ==
  /\ Running("CLIENT_CCS_BEFORE_2ND_CLIENT_HELLO")
  /\ conf.compatibility_mode
  /\ Wrote(mbedtls_ssl_handshake_set_state(
             mbedtls_ssl_tls13_write_change_cipher_spec(ssl), "CLIENT_HELLO"))

EncryptedExtensions ==
  /\ Running("ENCRYPTED_EXTENSIONS")
  /\ \E m \in EncryptedExtensionsMsgs :
       Read(ssl_tls13_process_encrypted_extensions(ssl, m), m)

CertificateRequest ==
  /\ Running("CERTIFICATE_REQUEST")
  /\ IF mbedtls_ssl_tls13_kex_with_psk(ssl)
       THEN Wrote(ssl_tls13_process_certificate_request(ssl, NoMessage))
       ELSE \E m \in CertificateRequestMsgs \cup CertificateMsgs \cup {Unexpected} :
              Read(ssl_tls13_process_certificate_request(ssl, m), m)

ServerCertificate ==
  /\ Running("SERVER_CERTIFICATE")
  /\ IF mbedtls_ssl_tls13_kex_with_psk(ssl)
       THEN Wrote(ssl_tls13_process_server_certificate(ssl, NoMessage))
       ELSE \E m \in Incoming(ssl, CertificateMsgs \cup {Unexpected}) :
              Read(ssl_tls13_process_server_certificate(ssl, m), m)

CertificateVerify ==
  /\ Running("CERTIFICATE_VERIFY")
  /\ IF ~ssl_tls13_read_certificate_verify_coordinate(ssl)
       THEN Wrote(ssl_tls13_process_certificate_verify(ssl, NoMessage))
       ELSE \E m \in CertificateVerifyMsgs \cup {Unexpected} :
              Read(ssl_tls13_process_certificate_verify(ssl, m), m)

ServerFinished ==
  /\ Running("SERVER_FINISHED")
  /\ \E m \in FinishedMsgs(mbedtls_ssl_tls13_calculate_verify_data(ssl, "server")) :
       Read(ssl_tls13_process_server_finished(ssl, m), m)

EndOfEarlyData ==
  /\ Running("END_OF_EARLY_DATA")
  /\ Wrote(ssl_tls13_write_end_of_early_data_process(conf, ssl))

CcsAfterServerFinished ==
  /\ Running("CLIENT_CCS_AFTER_SERVER_FINISHED")
  /\ conf.compatibility_mode
  /\ Wrote(mbedtls_ssl_handshake_set_state(
             mbedtls_ssl_tls13_write_change_cipher_spec(ssl), "CLIENT_CERTIFICATE"))

ClientCertificate ==
  /\ Running("CLIENT_CERTIFICATE")
  /\ Wrote(ssl_tls13_write_client_certificate(conf, ssl))

ClientCertificateVerify ==
  /\ Running("CLIENT_CERTIFICATE_VERIFY")
  /\ Wrote(ssl_tls13_write_client_certificate_verify(ssl))

ClientFinished ==
  /\ Running("CLIENT_FINISHED")
  /\ Wrote(ssl_tls13_write_client_finished(ssl))

FlushBuffers ==
  /\ Running("FLUSH_BUFFERS")
  /\ Wrote(ssl_tls13_flush_buffers(ssl))

HandshakeWrapup ==
  /\ Running("HANDSHAKE_WRAPUP")
  /\ Wrote(ssl_tls13_handshake_wrapup(ssl))

Next ==
  \/ HelloRequest
  \/ ClientHello
  \/ CcsAfterClientHello
  \/ EarlyAppData
  \/ ServerHello
  \/ CcsBefore2ndClientHello
  \/ EncryptedExtensions
  \/ CertificateRequest
  \/ ServerCertificate
  \/ CertificateVerify
  \/ ServerFinished
  \/ EndOfEarlyData
  \/ CcsAfterServerFinished
  \/ ClientCertificate
  \/ ClientCertificateVerify
  \/ ClientFinished
  \/ FlushBuffers
  \/ HandshakeWrapup

Spec == Init /\ [][Next]_vars

\* the driver calls the step function again as long as the handshake is
\* neither over nor failed, and every record-layer request completes
FairSpec == Spec /\ WF_vars(Next)

(***************************************************************************)
(* Session tickets: the connection after the handshake takes              *)
(* NewSessionTicket messages, the clock moves, and the stored session is   *)
(* set on a fresh context that writes its ClientHello.  The fields of the  *)
(* finished handshake that ticket handling does not read keep their        *)
(* initial values.                                                         *)
(***************************************************************************)
\* largest number of NewSessionTicket messages taken on a connection
MaxTickets == 2

\* largest number of extensions in a NewSessionTicket
MaxTicketExts == 2

\* values of time( NULL ), in seconds: a start, one second, eight days, and
\* the two values around 7 * 86400 * 1000 seconds later
Times ==
  { 1000, 1001, 1000 + 8 * 86400, 1000 + TicketAgeLimit - 1, 1000 + TicketAgeLimit }

\* ticket_age_add: 0, 1 and 2^32 - 1
AgeAdds ==
  { << 0, 0 >>, << 0, 1 >>, << Half - 1, Half - 1 >> }

NewSessionTicketExts ==
  { [type |-> EXT_EARLY_DATA, size |-> 4, max_early_data_size |-> 16384,
     framing |-> "ok"],
    [type |-> EXT_EARLY_DATA, size |-> 0, max_early_data_size |-> 0,
     framing |-> "ok"],
    [type |-> EXT_UNKNOWN, size |-> 0, max_early_data_size |-> 0,
     framing |-> "ok"],
    [type |-> EXT_UNKNOWN, size |-> 8, max_early_data_size |-> 0,
     framing |-> "overrun"] }

NewSessionTicketMsgs ==
  [ hs_type : {"new_session_ticket"},
    shape : {"ok"},
    ticket_lifetime : {3600},
    ticket_age_add : AgeAdds,
    ticket : {1, 2},
    exts : SeqsUpTo(NewSessionTicketExts, MaxTicketExts) ]
  \cup
  [ hs_type : {"new_session_ticket"},
    shape : {"short_header", "short_nonce", "short_ticket", "extensions_length"},
    ticket_lifetime : {3600},
    ticket_age_add : { << 0, 1 >> },
    ticket : {2},
    exts : { << >> } ]
  \cup
  [ hs_type : {"key_update"},
    shape : {"ok"},
    ticket_lifetime : {0},
    ticket_age_add : { << 0, 0 >> },
    ticket : {0},
    exts : { << >> } ]

\* the record layer finds a NewSessionTicket on the established connection
\* and sets the state for the step function
NewSessionTicketArrives ==
  /\ ssl.state = "HANDSHAKE_OVER"
  /\ ssl.ret \in {"OK", "RECEIVED_NEW_SESSION_TICKET"}
  /\ ssl.session.ingested < MaxTickets
  /\ Wrote([ssl EXCEPT !.state = "CLIENT_NEW_SESSION_TICKET", !.ret = "OK"])

\* case MBEDTLS_SSL_CLIENT_NEW_SESSION_TICKET of the step function
ClientNewSessionTicket ==
  /\ Running("CLIENT_NEW_SESSION_TICKET")
  /\ \E m \in NewSessionTicketMsgs :
       LET r == ssl_tls13_new_session_ticket_process(
                  [ssl EXCEPT !.session.ingested = @ + 1], m)
       IN  Read(IF r.ret = "OK"
                  THEN [r EXCEPT !.ret = "RECEIVED_NEW_SESSION_TICKET"]
                  ELSE r, m)

\* time passes, or the wall clock is set
Tick ==
  /\ ssl.state \in {"HANDSHAKE_OVER", "HELLO_REQUEST"}
  /\ \E now \in Times \ {ssl.clock} :
       /\ ssl' = [ssl EXCEPT !.clock = now]
       /\ UNCHANGED << conf, in_msg >>

\* mbedtls_ssl_set_session on a fresh context: the stored session becomes
\* the session to negotiate
SetSession ==
  /\ ssl.state = "HANDSHAKE_OVER"
  /\ ssl.ret \in {"OK", "RECEIVED_NEW_SESSION_TICKET"}
  /\ ssl.session.ticket # 0
  /\ Wrote([InitialContext EXCEPT
              !.session = ssl.session,
              !.ticket_age_add = ssl.session.ticket_age_add,
              !.ticket_received = ssl.session.ticket_received,
              !.have_time = ssl.have_time,
              !.clock = ssl.clock])

TicketInit ==
  /\ conf \in { c \in Configs : mbedtls_ssl_get_psk_to_offer(c) }
  /\ \E have_time \in BOOLEAN :
       ssl = [InitialContext EXCEPT !.state = "HANDSHAKE_OVER",
                                    !.ciphersuite = TLS1_3_AES_128_GCM_SHA256,
                                    !.ciphersuite_info = TLS1_3_AES_128_GCM_SHA256,
                                    !.have_time = have_time,
                                    !.clock = 1000]
  /\ in_msg = NoMessage

TicketNext ==
  \/ NewSessionTicketArrives
  \/ ClientNewSessionTicket
  \/ Tick
  \/ SetSession
  \/ HelloRequest
  \/ ClientHello

TicketSpec == TicketInit /\ [][TicketNext]_vars

(***************************************************************************)
(* The ALPN extension of EncryptedExtensions: the parser is applied to     *)
(* extension data of every shape, for clients that offered no protocol,    *)
(* one protocol or two.                                                    *)
(***************************************************************************)
\* largest length of the extension data
MaxAlpnLen == 6

\* bytes of the extension data: small numbers for the length fields, and
\* the letters a and b
AlpnBytes == {0, 1, 2, 4, 97, 98}

AlpnLists ==
  { << >>, << << 97 >> >>, << << 97, 98 >>, << 98 >> >> }

ParseAlpnExt ==
  /\ Running("ENCRYPTED_EXTENSIONS")
  /\ in_msg = NoMessage
  /\ \E buf \in SeqsUpTo(AlpnBytes, MaxAlpnLen), beyond \in [1..2 -> {97, 98}] :
       Read(ssl_tls13_parse_alpn_ext(conf, ssl, buf, beyond),
            [hs_type |-> "encrypted_extensions", alpn |-> buf])

AlpnInit ==
  /\ \E list \in AlpnLists :
       conf = [Config(KexModes, SuitesA, TRUE, TRUE, TLS1_3, TRUE, TRUE)
                 EXCEPT !.alpn_list = list]
  /\ ssl = [InitialContext EXCEPT !.state = "ENCRYPTED_EXTENSIONS"]
  /\ in_msg = NoMessage

AlpnNext ==
  ParseAlpnExt

AlpnSpec == AlpnInit /\ [][AlpnNext]_vars

(***************************************************************************)
(* The transcript reset on its own: mbedtls_ssl_reset_transcript_for_hrr   *)
(* applied, up to MaxResets times in a row, to a transcript of up to       *)
(* MaxTranscript messages hashed under either MAC.                         *)
(***************************************************************************)
MaxResets == 3
MaxTranscript == 2

TranscriptMsgs == { "client_hello", "server_hello", "encrypted_extensions",
                    "certificate", "finished" }

RECURSIVE ResetsIn(_)
ResetsIn(hash_transcript) ==
  IF hash_transcript = << >> THEN 0 ELSE 1 + ResetsIn(hash_transcript[1].after)

ResetTranscriptForHrr ==
  /\ Running("SERVER_HELLO")
  /\ ResetsIn(ssl.hash_transcript) < MaxResets
  /\ Wrote(mbedtls_ssl_reset_transcript_for_hrr(ssl))

ResetInit ==
  /\ conf = Config(KexModes, SuitesA, TRUE, TRUE, TLS1_3, TRUE, TRUE)
  /\ \E cs \in { TLS1_3_AES_128_GCM_SHA256, TLS1_3_AES_256_GCM_SHA384 },
        tr \in SeqsUpTo(TranscriptMsgs, MaxTranscript) :
        ssl = [InitialContext EXCEPT !.state = "SERVER_HELLO",
                                     !.ciphersuite = cs,
                                     !.transcript = tr]
  /\ in_msg = NoMessage

ResetNext == ResetTranscriptForHrr

ResetSpec == ResetInit /\ [][ResetNext]_vars

(***************************************************************************)
(* The handshake when one call into the key schedule fails: the steps are  *)
(* those of Next, the connection starts with the call that is to fail.     *)
(***************************************************************************)
Faults ==
  [ in : {"server_hello", "server_finished"},
    call : {"key_schedule", "generate_keys", "calloc", "populate_transform"} ]
  \cup [ in : {"early_data"},
         call : {"set_hs_psk", "key_schedule", "generate_keys", "calloc",
                 "populate_transform"} ]
  \cup { NoFault }

FaultConfigs ==
  { Config(KexModes, SuitesA, TRUE, TRUE, TLS1_3, TRUE, TRUE) }

FaultInit ==
  /\ conf \in FaultConfigs
  /\ \E f \in Faults : ssl = [InitialContext EXCEPT !.fault = f]
  /\ in_msg = NoMessage

FaultSpec == FaultInit /\ [][Next]_vars

(***************************************************************************)
(* The handshake when the transport does not take a record at once: the    *)
(* steps are those of Next, the connection starts with the record whose    *)
(* write is to return MBEDTLS_ERR_SSL_WANT_WRITE.                          *)
(***************************************************************************)
WriteFaults ==
  [ in : {"early_data", "end_of_early_data", "finished"},
    call : {"write_record"} ]
  \cup { NoFault }

RetryInit ==
  /\ conf \in FaultConfigs
  /\ \E f \in WriteFaults : ssl = [InitialContext EXCEPT !.fault = f]
  /\ in_msg = NoMessage

RetrySpec == RetryInit /\ [][Next]_vars

(***************************************************************************)
(* The Certificate body on its own: written for every chain of             *)
(* OwnCertChains and every request context into a buffer of every size up  *)
(* to MaxBodyBuf.                                                          *)
(***************************************************************************)
\* largest size of the output range
MaxBodyBuf == 16

\* the chains of mbedtls_ssl_own_cert, each certificate by its raw.len
OwnCertChains ==
  { << >>, << 1 >>, << 2 >>, << 1, 2 >>, << 2, 2 >> }

\* ssl_tls13_write_certificate_body as mbedtls_ssl_tls13_write_certificate
\* calls it; in_msg keeps the chain that was written
WriteCertificateBody ==
  /\ Running("CLIENT_CERTIFICATE")
  /\ \E crt \in OwnCertChains, buf_len \in 0..MaxBodyBuf :
       /\ ssl' = ssl_tls13_write_certificate_body_buf(ssl, crt, buf_len)
       /\ in_msg' = [hs_type |-> "certificate_body", crt |-> crt]
  /\ UNCHANGED conf

CertBodyInit ==
  /\ conf = Config({"EPHEMERAL"}, SuitesA, FALSE, FALSE, TLS1_3, FALSE, TRUE)
  /\ \E context \in RequestContexts :
       ssl = [InitialContext EXCEPT
                !.state = "CLIENT_CERTIFICATE",
                !.client_auth = TRUE,
                !.certificate_request_context = context,
                !.certificate_request_context_len = Len(context)]
  /\ in_msg = NoMessage

CertBodyNext == WriteCertificateBody

CertBodySpec == CertBodyInit /\ [][CertBodyNext]_vars

(***************************************************************************)
(* The ClientHello on its own: written under every configuration of the    *)
(* key-exchange modes, with and without MBEDTLS_ZERO_RTT, as a first       *)
(* ClientHello and as the answer to a HelloRetryRequest.                   *)
(***************************************************************************)
ExtsConfigs ==
  { Config(kex, SuitesA, psk, early, minv, TRUE, TRUE) :
      kex \in SUBSET KexModes \ {{}}, psk \in BOOLEAN, early \in BOOLEAN,
      minv \in {TLS1_2, TLS1_3} }

ExtsInit ==
  /\ conf \in ExtsConfigs
  /\ \E zero_rtt \in BOOLEAN,
        hrr_cookie \in { << >>, << << 192, 0, 255 >> >> },
        group \in { 0, SECP384R1, X25519 } :
        ssl = [InitialContext EXCEPT !.state = "CLIENT_HELLO",
                                     !.zero_rtt = zero_rtt,
                                     !.hrr_cookie = hrr_cookie,
                                     !.offered_group_id = group]
  /\ in_msg = NoMessage

ExtsNext == ClientHello

ExtsSpec == ExtsInit /\ [][ExtsNext]_vars

(***************************************************************************)
(* The key_share of a ServerHello on its own: ssl_tls13_parse_key_share_ext *)
(* applied to extension data of every length in KeyShareLens that declares *)
(* a key_exchange of every length in KeyExchangeLens.                      *)
(***************************************************************************)
KeyShareLens == { 0, 1, 2, 3, 4, 5, 36, 69, 137, 138, 204 }

KeyExchangeLens == { 0, 1, 32, 33, 65, 133, 134, 200 }

KeyShareExts ==
  [ type : {EXT_KEY_SHARE}, group : {SECP256R1, X25519},
    data_len : KeyShareLens, key_exchange_length : KeyExchangeLens ]

ParseKeyShareExt ==
  /\ Running("SERVER_HELLO")
  /\ in_msg = NoMessage
  /\ \E ext \in KeyShareExts :
       Read(ssl_tls13_parse_key_share_ext(ssl, ext),
            [hs_type |-> "server_hello", exts |-> << ext >>])

KeyShareInit ==
  /\ conf = Config({"EPHEMERAL"}, SuitesA, FALSE, FALSE, TLS1_3, FALSE, TRUE)
  /\ \E group \in {SECP256R1, X25519} :
        ssl = [InitialContext EXCEPT !.state = "SERVER_HELLO",
                                     !.offered_group_id = group]
  /\ in_msg = NoMessage

KeyShareNext == ParseKeyShareExt

KeyShareSpec == KeyShareInit /\ [][KeyShareNext]_vars

(***************************************************************************)
(* Properties.  in_msg is the message the last step read and ssl the       *)
(* context that step left behind, so a state predicate over both relates   *)
(* a message to the outcome of its handler.                                *)
(***************************************************************************)
IsServerHello(m) ==
  m.hs_type = "server_hello"

HasExt(m, t) ==
  \E i \in 1..Len(m.exts) : m.exts[i].type = t

ExtsOfType(m, t) ==
  SelectSeq(m.exts, LAMBDA e : e.type = t)

ClientHellos(s) ==
  SelectSeq(s.sent, LAMBDA r : r.hs_type = "client_hello")

HasHrrRandom(m) ==
  m.random = magic_hrr_string

\* the last eight bytes of the random are "DOWNGRD" and then 0x00 or 0x01
EndsInDowngradeSentinel(m) ==
  LastBytes(m.random, 8) \in { magic_downgrade_string \o << 0 >>,
                               magic_downgrade_string \o << 1 >> }

\* no supported_versions extension of the message names TLS 1.3
DoesNotIndicateTls13(m) ==
  \A i \in 1..Len(m.exts) :
    m.exts[i].type = EXT_SUPPORTED_VERSIONS => m.exts[i].version # TLS1_3

\* the ServerHello read by the last step answered the second ClientHello
AnswersSecondClientHello ==
  /\ IsServerHello(in_msg)
  /\ ssl.hrr # << >>
  /\ Len(ClientHellos(ssl)) = 2

\* C1: once a HelloRetryRequest has been accepted and answered by a second
\* ClientHello, every ServerHello whose random is the HRR sentinel fails the
\* SERVER_HELLO step with the fatal alert unexpected_message, and no third
\* ClientHello is ever sent.
C1_SecondHrrIsUnexpectedMessage ==
  /\ Len(ClientHellos(ssl)) <= 2
  /\ (AnswersSecondClientHello /\ HasHrrRandom(in_msg))
       => /\ ssl.ret = "UNEXPECTED_MESSAGE"
          /\ ssl.alert = "unexpected_message"
          /\ ssl.state = "SERVER_HELLO"

\* C2 as stated: a ServerHello whose random ends in the downgrade sentinel
\* and whose supported_versions does not indicate TLS 1.3 (absent, or naming
\* another version) is rejected with illegal_parameter and the handshake
\* goes on neither as TLS 1.3 nor as TLS 1.2.
C2_DowngradeAlwaysIllegalParameter ==
  (IsServerHello(in_msg) /\ EndsInDowngradeSentinel(in_msg)
     /\ DoesNotIndicateTls13(in_msg))
    => /\ ssl.ret = "ILLEGAL_PARAMETER"
       /\ ssl.alert = "illegal_parameter"
       /\ ssl.state = "SERVER_HELLO"
       /\ ssl.tls_version = TLS1_3

\* C2 amended: such a ServerHello is always rejected, the state stays
\* SERVER_HELLO and TLS 1.2 is not negotiated; the alert is illegal_parameter
\* when supported_versions is absent, and when it is the first extension of
\* a message whose legacy_version is 0x0303; otherwise the alert is that of
\* the first field or extension the parser refuses.
C2_DowngradeRejected ==
  (IsServerHello(in_msg) /\ EndsInDowngradeSentinel(in_msg)
     /\ DoesNotIndicateTls13(in_msg))
    => /\ ssl.ret # "OK"
       /\ ssl.state = "SERVER_HELLO"
       /\ ssl.tls_version = TLS1_3
       /\ ( \/ ~HasExt(in_msg, EXT_SUPPORTED_VERSIONS)
            \/ /\ in_msg.legacy_version = TLS1_2
               /\ in_msg.exts[1].type = EXT_SUPPORTED_VERSIONS )
            => /\ ssl.ret = "ILLEGAL_PARAMETER"
               /\ ssl.alert = "illegal_parameter"

\* C2 witness: a sentinel-bearing ServerHello without supported_versions was
\* refused with illegal_parameter although the client accepts TLS 1.2
C2_Witness ==
  /\ IsServerHello(in_msg)
  /\ EndsInDowngradeSentinel(in_msg)
  /\ ~HasExt(in_msg, EXT_SUPPORTED_VERSIONS)
  /\ conf.min_tls_version = TLS1_2
  /\ ssl.ret = "ILLEGAL_PARAMETER"
  /\ ssl.alert = "illegal_parameter"

\* the positions in which a Finished body differs from the expected bytes
DifferingPositions(body, expected) ==
  { i \in 1..Len(expected) : body[i] # expected[i] }

\* C3: a server Finished whose body length differs from the hash size, or
\* whose bytes differ from the expected verify data in a single position, is
\* rejected: the step returns an error, the state stays SERVER_FINISHED, the
\* transcript is unchanged and no application keys are derived.
C3_BadServerFinishedRejected ==
  [][ LET expected == mbedtls_ssl_tls13_calculate_verify_data(ssl, "server")
          hash_size == mbedtls_ssl_ciphersuite_from_id(ssl.ciphersuite).hash_len
      IN  ( /\ ssl.state = "SERVER_FINISHED"
            /\ ssl.ret = "OK"
            /\ in_msg'.hs_type = "finished"
            /\ \/ Len(in_msg'.verify_data) # hash_size
               \/ /\ Len(in_msg'.verify_data) = hash_size
                  /\ Cardinality(DifferingPositions(in_msg'.verify_data,
                                                    expected)) = 1 )
            => /\ ssl'.ret # "OK"
               /\ ssl'.state = "SERVER_FINISHED"
               /\ ssl'.transcript = ssl.transcript
               /\ ssl'.key_schedule = "handshake"
               /\ ~ssl'.transform_application
               /\ ssl'.transform_in = "handshake" ]_vars

\* C3 witness: a Finished of the right length that differs in its last byte
\* only was refused with decrypt_error
C3_Witness ==
  /\ in_msg.hs_type = "finished"
  /\ ssl.state = "SERVER_FINISHED"
  /\ LET expected == mbedtls_ssl_tls13_calculate_verify_data(ssl, "server")
     IN  /\ Len(in_msg.verify_data) = Len(expected)
         /\ DifferingPositions(in_msg.verify_data, expected) = { Len(expected) }
  /\ ssl.ret = "HANDSHAKE_FAILURE"
  /\ ssl.alert = "decrypt_error"

\* C4: every ServerHello whose random is the HRR sentinel is classified as a
\* HelloRetryRequest by the coordination step, whatever extensions it
\* carries.
C4_HrrRandomClassifiedAsHrr ==
  (IsServerHello(in_msg) /\ HasHrrRandom(in_msg)) => ssl.coordinate = "HRR"

\* which of pre_shared_key and key_share a message carries
Carried(m) ==
  { t \in {EXT_PRE_SHARED_KEY, EXT_KEY_SHARE} : HasExt(m, t) }

\* C5: after a ServerHello that is no HRR, the key-exchange mode follows
\* from the extensions of that message alone (pre_shared_key only: PSK,
\* key_share only: ephemeral, both: PSK-ephemeral), whatever was recorded
\* while the ClientHello was written; with neither, the state does not become
\* ENCRYPTED_EXTENSIONS, and post-processing of a parsed message fails with
\* handshake_failure.
C5_KeyExchangeFromServerHello ==
  (IsServerHello(in_msg) /\ ssl.coordinate = "HELLO")
    => /\ ssl.state \in {"SERVER_HELLO", "ENCRYPTED_EXTENSIONS"}
       /\ ssl.state = "ENCRYPTED_EXTENSIONS"
            => /\ Carried(in_msg) = {EXT_PRE_SHARED_KEY}
                    => ssl.key_exchange = "PSK"
               /\ Carried(in_msg) = {EXT_KEY_SHARE}
                    => ssl.key_exchange = "EPHEMERAL"
               /\ Carried(in_msg) = {EXT_PRE_SHARED_KEY, EXT_KEY_SHARE}
                    => ssl.key_exchange = "PSK_EPHEMERAL"
               /\ Carried(in_msg) # {}
       /\ Carried(in_msg) = {}
            => /\ ssl.state = "SERVER_HELLO"
               /\ ssl.ret # "OK"
               /\ ssl.transcript[Len(ssl.transcript)] = "server_hello"
                    => /\ ssl.ret = "HANDSHAKE_FAILURE"
                       /\ ssl.alert = "handshake_failure"

\* C5 witness: the ClientHello carried a key_share, the ServerHello only a
\* pre_shared_key, and the mode became PSK
C5_Witness ==
  /\ IsServerHello(in_msg)
  /\ ssl.state = "ENCRYPTED_EXTENSIONS"
  /\ Carried(in_msg) = {EXT_PRE_SHARED_KEY}
  /\ HasExt(ClientHellos(ssl)[Len(ClientHellos(ssl))], EXT_KEY_SHARE)
  /\ ssl.key_exchange = "PSK"

ConfiguredGroups(c) ==
  { c.group_list[i] : i \in 1..Len(c.group_list) }

\* a first HelloRetryRequest, about to be handled in context s, whose fixed
\* fields pass, that names exactly one group, and whose other extensions are
\* supported_versions naming TLS 1.3 and cookie
HrrSelectingOneGroup(c, s, m) ==
  /\ s.state = "SERVER_HELLO" /\ s.ret = "OK" /\ s.tls_version = TLS1_3
  /\ s.hello_retry_request_count = 0
  /\ mbedtls_ssl_conf_tls13_some_ephemeral_enabled(c)
  /\ IsServerHello(m) /\ HasHrrRandom(m)
  /\ m.legacy_version = TLS1_2
  /\ m.legacy_session_id_echo = "echo"
  /\ m.legacy_compression_method = 0
  /\ ssl_tls13_cipher_suite_is_offered(c, m.cipher_suite)
  /\ mbedtls_ssl_ciphersuite_from_id(m.cipher_suite).tls13
  /\ HasExt(m, EXT_SUPPORTED_VERSIONS)
  /\ Len(ExtsOfType(m, EXT_KEY_SHARE)) = 1
  /\ \A i \in 1..Len(m.exts) :
       \/ m.exts[i].type \in {EXT_KEY_SHARE, EXT_COOKIE}
       \/ m.exts[i].type = EXT_SUPPORTED_VERSIONS /\ m.exts[i].version = TLS1_3

SelectedGroup(m) ==
  ExtsOfType(m, EXT_KEY_SHARE)[1].group

\* C6 as stated: the group selected by a HelloRetryRequest is refused with
\* illegal_parameter, the offered group id staying as it was, when it is not
\* in the configured group list or is the group already offered; otherwise
\* the offered group id becomes the selected group.
C6_HrrGroupConfiguredList ==
  [][ HrrSelectingOneGroup(conf, ssl, in_msg')
        => IF \/ SelectedGroup(in_msg') \notin ConfiguredGroups(conf)
              \/ SelectedGroup(in_msg') = ssl.offered_group_id
             THEN /\ ssl'.ret = "ILLEGAL_PARAMETER"
                  /\ ssl'.alert = "illegal_parameter"
                  /\ ssl'.offered_group_id = ssl.offered_group_id
             ELSE ssl'.offered_group_id = SelectedGroup(in_msg') ]_vars

\* C6 amended: the selected group is refused with illegal_parameter, the
\* offered group id staying as it was, when it is not a configured group
\* for which the library knows a curve or is the group already offered;
\* otherwise the offered group id becomes the selected group.
C6_HrrGroupKnownCurve ==
  [][ HrrSelectingOneGroup(conf, ssl, in_msg')
        => IF \/ SelectedGroup(in_msg') \notin
                   { g \in ConfiguredGroups(conf) :
                       mbedtls_ecp_curve_info_from_tls_id(g) }
              \/ SelectedGroup(in_msg') = ssl.offered_group_id
             THEN /\ ssl'.ret = "ILLEGAL_PARAMETER"
                  /\ ssl'.alert = "illegal_parameter"
                  /\ ssl'.offered_group_id = ssl.offered_group_id
             ELSE ssl'.offered_group_id = SelectedGroup(in_msg') ]_vars

\* C6 witness: a HelloRetryRequest selecting FFDHE2048, which is configured,
\* was refused and the offered group is still the one of the ClientHello
C6_Witness ==
  /\ IsServerHello(in_msg) /\ HasHrrRandom(in_msg)
  /\ in_msg.legacy_version = TLS1_2
  /\ in_msg.exts = << [type |-> EXT_SUPPORTED_VERSIONS, version |-> TLS1_3],
                      [type |-> EXT_KEY_SHARE, group |-> FFDHE2048] >>
  /\ FFDHE2048 \in ConfiguredGroups(conf)
  /\ ssl.coordinate = "HRR"
  /\ ssl.ret = "ILLEGAL_PARAMETER"
  /\ ssl.offered_group_id = SECP256R1

\* C7: the first ClientHello carries no cookie; the ClientHello that follows
\* an accepted HelloRetryRequest carries the cookie of the HRR when the HRR
\* had one, and one key_share entry, for the group the HRR selected, made
\* from a key generated after the key of the first ClientHello was
\* destroyed.
C7_SecondClientHelloFollowsHrr ==
  LET ch == ClientHellos(ssl)
  IN  /\ Len(ch) >= 1 => ~HasExt(ch[1], EXT_COOKIE)
      /\ (Len(ch) = 1 /\ ssl.hrr # << >> /\ ssl.ret = "OK") => ssl.keys_live = {}
      /\ Len(ch) >= 2
           => /\ ssl.hrr # << >>
              /\ ssl.hrr[1].cookie # << >>
                   => ExtsOfType(ch[2], EXT_COOKIE)
                        = << [type |-> EXT_COOKIE, cookie |-> ssl.hrr[1].cookie[1]] >>
              /\ Len(ExtsOfType(ch[2], EXT_KEY_SHARE)) = 1
              /\ ssl.hrr[1].group # 0
                   => ExtsOfType(ch[2], EXT_KEY_SHARE)[1].group = ssl.hrr[1].group
              /\ ExtsOfType(ch[2], EXT_KEY_SHARE)[1].key
                   > ExtsOfType(ch[1], EXT_KEY_SHARE)[1].key
              /\ ExtsOfType(ch[1], EXT_KEY_SHARE)[1].key \notin ssl.keys_live

\* C7 witness: a second ClientHello was written after a HelloRetryRequest
\* that carried a cookie and selected X25519
C7_Witness ==
  /\ Len(ClientHellos(ssl)) = 2
  /\ ssl.hrr # << >>
  /\ ssl.hrr[1].cookie # << >>
  /\ ssl.hrr[1].group = X25519
  /\ HasExt(ClientHellos(ssl)[2], EXT_COOKIE)

\* C8: a ServerHello that follows a HelloRetryRequest is refused with
\* illegal_parameter when its ciphersuite is not the one the HRR selected,
\* and a ServerHello that repeats the ciphersuite of the HRR and is otherwise
\* acceptable is accepted, in every configuration.
C8_ServerHelloSuiteMatchesHrr ==
  ( /\ AnswersSecondClientHello
    /\ ~HasHrrRandom(in_msg)
    /\ HasExt(in_msg, EXT_SUPPORTED_VERSIONS)
    /\ in_msg.legacy_version = TLS1_2 )
    => /\ in_msg.cipher_suite # ssl.hrr[1].cipher_suite
            => /\ ssl.ret = "ILLEGAL_PARAMETER"
               /\ ssl.alert = "illegal_parameter"
       /\ ( /\ in_msg.cipher_suite = ssl.hrr[1].cipher_suite
            /\ in_msg.legacy_session_id_echo = "echo"
            /\ in_msg.legacy_compression_method = 0
            /\ in_msg.exts = << [type |-> EXT_SUPPORTED_VERSIONS, version |-> TLS1_3],
                                [type |-> EXT_KEY_SHARE,
                                 group |-> ssl.offered_group_id] >> )
            => /\ ssl.ret = "OK"
               /\ ssl.state = "ENCRYPTED_EXTENSIONS"

\* the states from the acceptance of the final ServerHello on
AfterServerHello ==
  { "ENCRYPTED_EXTENSIONS", "CERTIFICATE_REQUEST", "SERVER_CERTIFICATE",
    "CERTIFICATE_VERIFY", "SERVER_FINISHED", "END_OF_EARLY_DATA",
    "CLIENT_CCS_AFTER_SERVER_FINISHED", "CLIENT_CERTIFICATE",
    "CLIENT_CERTIFICATE_VERIFY", "CLIENT_FINISHED", "FLUSH_BUFFERS",
    "HANDSHAKE_WRAPUP", "HANDSHAKE_OVER" }

\* C9: the step that accepts the final ServerHello stores the ciphersuite of
\* that message, which the client offered and which is a TLS 1.3 suite, and
\* no later step of the handshake changes it.
C9_CiphersuiteFixedByServerHello ==
  [][ /\ (ssl.state = "SERVER_HELLO" /\ ssl'.state = "ENCRYPTED_EXTENSIONS")
           => /\ ssl'.ciphersuite = in_msg'.cipher_suite
              /\ \E i \in 1..Len(conf.ciphersuite_list) :
                   conf.ciphersuite_list[i] = ssl'.ciphersuite
              /\ ssl'.ciphersuite \in { TLS1_3_AES_128_GCM_SHA256,
                                        TLS1_3_AES_256_GCM_SHA384,
                                        TLS1_3_CHACHA20_POLY1305_SHA256 }
      /\ ssl.state \in AfterServerHello
           => ssl'.ciphersuite = ssl.ciphersuite ]_vars

\* C9 witness: a handshake that went through a HelloRetryRequest is over
C9_Witness ==
  /\ ssl.state = "HANDSHAKE_OVER"
  /\ ssl.hrr # << >>
  /\ ssl.ciphersuite = TLS1_3_AES_256_GCM_SHA384

\* the switches to handshake and to application keys, in the order made
HandshakeSwitches(s) ==
  SelectSeq(s.switches, LAMBDA w : w.keys \in {"handshake", "application"})

\* C10 as stated: inbound goes to handshake keys in the SERVER_HELLO step,
\* outbound to handshake keys in the CLIENT_CERTIFICATE step, inbound to
\* application keys in the SERVER_FINISHED step, outbound to application
\* keys once the client Finished is written, in this order.
C10_SwitchPointsAsStated ==
  LET sw == HandshakeSwitches(ssl)
  IN  /\ Len(sw) <= 4
      /\ Len(sw) >= 1
           => sw[1] = [dir |-> "in", keys |-> "handshake", at |-> "SERVER_HELLO"]
      /\ Len(sw) >= 2
           => sw[2] = [dir |-> "out", keys |-> "handshake",
                       at |-> "CLIENT_CERTIFICATE"]
      /\ Len(sw) >= 3
           => sw[3] = [dir |-> "in", keys |-> "application",
                       at |-> "SERVER_FINISHED"]
      /\ Len(sw) >= 4
           => /\ sw[4].dir = "out" /\ sw[4].keys = "application"
              /\ sw[4].at \in {"CLIENT_FINISHED", "FLUSH_BUFFERS", "HANDSHAKE_WRAPUP"}
      /\ ssl.state = "HANDSHAKE_OVER" => Len(sw) = 4

\* C10 amended: inbound goes to handshake keys in the SERVER_HELLO step,
\* outbound to handshake keys in the CLIENT_CERTIFICATE step, and both
\* directions go to application keys in the HANDSHAKE_WRAPUP step, inbound
\* first, after the client Finished is written; a finished handshake has
\* made exactly these four switches.
C10_SwitchPoints ==
  LET sw == HandshakeSwitches(ssl)
  IN  /\ Len(sw) <= 4
      /\ Len(sw) >= 1
           => sw[1] = [dir |-> "in", keys |-> "handshake", at |-> "SERVER_HELLO"]
      /\ Len(sw) >= 2
           => sw[2] = [dir |-> "out", keys |-> "handshake",
                       at |-> "CLIENT_CERTIFICATE"]
      /\ Len(sw) >= 3
           => sw[3] = [dir |-> "in", keys |-> "application",
                       at |-> "HANDSHAKE_WRAPUP"]
      /\ Len(sw) >= 4
           => sw[4] = [dir |-> "out", keys |-> "application",
                       at |-> "HANDSHAKE_WRAPUP"]
      /\ ssl.state \in AfterServerHello => Len(sw) >= 1
      /\ ssl.state \in {"CLIENT_CERTIFICATE_VERIFY", "CLIENT_FINISHED",
                        "FLUSH_BUFFERS", "HANDSHAKE_WRAPUP"} => Len(sw) = 2
      /\ ssl.state = "HANDSHAKE_OVER" => Len(sw) = 4

\* C10 witness: a handshake with early data is over, and inbound was still
\* on handshake keys when the client Finished was written
C10_Witness ==
  /\ ssl.state = "HANDSHAKE_OVER"
  /\ Len(HandshakeSwitches(ssl)) = 4
  /\ ssl.transform_in = "application"
  /\ ssl.transform_out = "application"
  /\ \E i \in 1..Len(ssl.switches) : ssl.switches[i].keys = "earlydata"

\* the records of the client's authentication flight
ClientFlight(s) ==
  SelectSeq(s.sent, LAMBDA r : r.hs_type \in {"certificate", "certificate_verify",
                                              "finished"})

\* C11: an inbound transform is installed exactly when the state is
\* ENCRYPTED_EXTENSIONS or later, and every client Certificate,
\* CertificateVerify and Finished is written under the outbound handshake
\* transform.
C11_TransformsInstalled ==
  /\ (ssl.transform_in # "none") <=> (ssl.state \in AfterServerHello)
  /\ \A i \in 1..Len(ClientFlight(ssl)) : ClientFlight(ssl)[i].keys = "handshake"
  /\ ClientFlight(ssl) # << >> => ssl.transform_out \in {"handshake", "application"}

\* C11 witness: the client Certificate was written under handshake keys by
\* a client whose outbound direction had been on early-data keys
C11_Witness ==
  /\ ssl.transform_in = "handshake"
  /\ \E i \in 1..Len(ssl.switches) : ssl.switches[i].keys = "earlydata"
  /\ \E i \in 1..Len(ssl.sent) :
       ssl.sent[i].hs_type = "certificate" /\ ssl.sent[i].keys = "handshake"

\* the types of the handshake messages among the given records
RECURSIVE HandshakeTypes(_)
HandshakeTypes(records) ==
  IF records = << >> THEN << >>
  ELSE IF Head(records).hs_type \in {"client_hello", "end_of_early_data",
                                     "certificate", "certificate_verify",
                                     "finished"}
    THEN << Head(records).hs_type >> \o HandshakeTypes(Tail(records))
    ELSE HandshakeTypes(Tail(records))

\* C12: every step folds into the transcript the handshake messages it
\* writes, in the order written, and the message it reads when that message
\* is accepted, once; a message kept for the next handler is folded in by
\* that handler; a message that is refused leaves the transcript as it was,
\* except a ServerHello refused after parsing for carrying neither
\* pre_shared_key nor key_share and a HelloRetryRequest refused after
\* parsing for selecting a group whose key share cannot be reset, which are
\* folded in as accepted ones are; an accepted HelloRetryRequest replaces the
\* transcript, which held the first ClientHello, by its message_hash and is
\* folded in after it.
C12_TranscriptInWireOrder ==
  [][ LET written == SubSeq(ssl'.sent, Len(ssl.sent) + 1, Len(ssl'.sent))
      IN  CASE in_msg' = NoMessage ->
                 ssl'.transcript = ssl.transcript \o HandshakeTypes(written)
            [] in_msg' # NoMessage /\ ssl'.ret # "OK" ->
                 \/ ssl'.transcript = ssl.transcript
                 \/ /\ IsServerHello(in_msg')
                    /\ Carried(in_msg') = {}
                    /\ ssl'.ret = "HANDSHAKE_FAILURE"
                    /\ ssl'.transcript = Append(ssl.transcript, "server_hello")
                 \/ /\ IsServerHello(in_msg')
                    /\ ssl'.coordinate = "HRR"
                    /\ ssl'.ret = "INTERNAL_ERROR"
                    /\ ssl.transcript = << "client_hello" >>
                    /\ ssl'.transcript = << "message_hash", "server_hello" >>
            [] in_msg' # NoMessage /\ ssl'.ret = "OK" /\ ssl'.kept # << >> ->
                 ssl'.transcript = ssl.transcript
            [] in_msg' # NoMessage /\ ssl'.ret = "OK" /\ ssl'.kept = << >>
               /\ IsServerHello(in_msg') /\ ssl'.coordinate = "HRR" ->
                 /\ ssl.transcript = << "client_hello" >>
                 /\ ssl'.transcript = << "message_hash", "server_hello" >>
            [] OTHER ->
                 ssl'.transcript = Append(ssl.transcript, in_msg'.hs_type) ]_vars

\* C12 witness: a handshake through a HelloRetryRequest and with client
\* authentication is over, and its transcript is the message_hash followed
\* by every message from the HelloRetryRequest on
C12_Witness ==
  /\ ssl.state = "HANDSHAKE_OVER"
  /\ ssl.transcript = << "message_hash", "server_hello", "client_hello",
                         "server_hello", "encrypted_extensions",
                         "certificate_request", "certificate",
                         "certificate_verify", "finished", "certificate",
                         "certificate_verify", "finished" >>

\* a ServerHello or HelloRetryRequest, about to be handled in context s,
\* that is taken for a TLS 1.3 message and whose fixed fields pass
ReachesExtensions(c, s, m) ==
  /\ s.state = "SERVER_HELLO" /\ s.ret = "OK" /\ s.tls_version = TLS1_3
  /\ IsServerHello(m)
  /\ HasExt(m, EXT_SUPPORTED_VERSIONS)
  /\ HasHrrRandom(m) => /\ s.hello_retry_request_count = 0
                        /\ mbedtls_ssl_conf_tls13_some_ephemeral_enabled(c)
  /\ m.legacy_version = TLS1_2
  /\ m.legacy_session_id_echo = "echo"
  /\ m.legacy_compression_method = 0
  /\ ServerHelloCiphersuiteAccepted(c, s, m.cipher_suite, HasHrrRandom(m))

\* an extension the message must not carry: one of another type than the
\* four known ones, a cookie outside a HelloRetryRequest, a pre_shared_key
\* inside one
Misplaced(m, ext) ==
  \/ ext.type \notin {EXT_SUPPORTED_VERSIONS, EXT_COOKIE, EXT_PRE_SHARED_KEY,
                      EXT_KEY_SHARE}
  \/ ext.type = EXT_COOKIE /\ ~HasHrrRandom(m)
  \/ ext.type = EXT_PRE_SHARED_KEY /\ HasHrrRandom(m)

\* an extension that the parser always passes
AlwaysAccepted(m, ext) ==
  \/ ext.type = EXT_SUPPORTED_VERSIONS /\ ext.version = TLS1_3
  \/ ext.type = EXT_COOKIE /\ HasHrrRandom(m)

ServerFinishedRefused ==
  /\ in_msg.hs_type = "finished"
  /\ ssl.state = "SERVER_FINISHED"

\* the CertificateVerify read by the last step fails one of the checks
CertificateVerifyFails(m) ==
  /\ m.hs_type = "certificate_verify"
  /\ ~m.sig_alg_is_offered \/ ~m.pk_can_do \/ ~m.pk_verify

\* C14 as stated: a server Finished of the wrong length or with wrong
\* bytes, and a server CertificateVerify whose scheme was not offered, does
\* not fit the peer key or does not verify, each pend decrypt_error.
C14_DecryptErrorAlways ==
  /\ ServerFinishedRefused => ssl.alert = "decrypt_error"
  /\ CertificateVerifyFails(in_msg) => ssl.alert = "decrypt_error"

\* C14 amended: a server Finished with wrong bytes and a failing server
\* CertificateVerify pend decrypt_error and return HANDSHAKE_FAILURE; a
\* server Finished of the wrong length pends decode_error and returns
\* DECODE_ERROR.
C14_DecryptOrDecodeError ==
  LET expected == mbedtls_ssl_tls13_calculate_verify_data(ssl, "server")
  IN  /\ ServerFinishedRefused
           => IF Len(in_msg.verify_data) # Len(expected)
                THEN ssl.ret = "DECODE_ERROR" /\ ssl.alert = "decode_error"
                ELSE /\ in_msg.verify_data # expected
                     /\ ssl.ret = "HANDSHAKE_FAILURE"
                     /\ ssl.alert = "decrypt_error"
      /\ CertificateVerifyFails(in_msg)
           => /\ ssl.ret = "HANDSHAKE_FAILURE"
              /\ ssl.alert = "decrypt_error"
              /\ ssl.state = "CERTIFICATE_VERIFY"

\* C14 witness: a server Finished one byte short of the hash size was
\* refused with decode_error
C14_Witness ==
  /\ ServerFinishedRefused
  /\ Len(in_msg.verify_data) + 1
       = Len(mbedtls_ssl_tls13_calculate_verify_data(ssl, "server"))
  /\ ssl.ret = "DECODE_ERROR"
  /\ ssl.alert = "decode_error"

\* the states in which the server's certificate messages are handled
CertificateStates ==
  {"CERTIFICATE_REQUEST", "SERVER_CERTIFICATE", "CERTIFICATE_VERIFY"}

\* C15: in PSK-only mode the state after ENCRYPTED_EXTENSIONS is
\* SERVER_FINISHED, no certificate state is entered and no
\* CertificateRequest, Certificate or CertificateVerify is read; in
\* ephemeral mode the states after ENCRYPTED_EXTENSIONS are
\* CERTIFICATE_REQUEST, SERVER_CERTIFICATE, CERTIFICATE_VERIFY and
\* SERVER_FINISHED, in this order.
C15_CertificateStatesByMode ==
  [][ /\ ssl.key_exchange = "PSK"
           => /\ (ssl.state = "ENCRYPTED_EXTENSIONS" /\ ssl'.state # ssl.state)
                   => ssl'.state = "SERVER_FINISHED"
              /\ ssl'.state \notin CertificateStates
              /\ in_msg'.hs_type \notin {"certificate_request", "certificate",
                                         "certificate_verify"}
      /\ ssl.key_exchange = "EPHEMERAL"
           => /\ (ssl.state = "ENCRYPTED_EXTENSIONS" /\ ssl'.state # ssl.state)
                   => ssl'.state = "CERTIFICATE_REQUEST"
              /\ (ssl.state = "CERTIFICATE_REQUEST" /\ ssl'.state # ssl.state)
                   => ssl'.state = "SERVER_CERTIFICATE"
              /\ (ssl.state = "SERVER_CERTIFICATE" /\ ssl'.state # ssl.state)
                   => ssl'.state = "CERTIFICATE_VERIFY"
              /\ (ssl.state = "CERTIFICATE_VERIFY" /\ ssl'.state # ssl.state)
                   => ssl'.state = "SERVER_FINISHED"
              /\ (ssl'.state = "SERVER_FINISHED" /\ ssl'.state # ssl.state)
                   => ssl.state = "CERTIFICATE_VERIFY" ]_vars

\* C15 witness: a PSK-only handshake is over and its transcript holds no
\* certificate message
C15_Witness ==
  /\ ssl.state = "HANDSHAKE_OVER"
  /\ ssl.key_exchange = "PSK"
  /\ ssl.transcript = << "client_hello", "server_hello", "encrypted_extensions",
                         "finished", "finished" >>

\* the states after the END_OF_EARLY_DATA step
AfterEndOfEarlyData ==
  { "CLIENT_CCS_AFTER_SERVER_FINISHED", "CLIENT_CERTIFICATE",
    "CLIENT_CERTIFICATE_VERIFY", "CLIENT_FINISHED", "FLUSH_BUFFERS",
    "HANDSHAKE_WRAPUP", "HANDSHAKE_OVER" }

EndOfEarlyDataWritten(s) ==
  SelectSeq(s.sent, LAMBDA r : r.hs_type = "end_of_early_data")

\* C16: once the END_OF_EARLY_DATA step is over, an EndOfEarlyData has been
\* written, once, exactly when the last ClientHello carried early_data and
\* early_data_status is ACCEPTED, and never before that step; in the
\* transcript the EndOfEarlyData comes right after the server Finished,
\* hence before the client Certificate, CertificateVerify and Finished.
C16_EndOfEarlyDataIffAccepted ==
  LET ch == ClientHellos(ssl)
      offered == ch # << >> /\ HasExt(ch[Len(ch)], EXT_EARLY_DATA)
      accepted == offered /\ ssl.early_data_status = "ACCEPTED"
  IN  /\ ssl.state \in AfterEndOfEarlyData
           => Len(EndOfEarlyDataWritten(ssl)) = IF accepted THEN 1 ELSE 0
      /\ ssl.state \notin AfterEndOfEarlyData
           => EndOfEarlyDataWritten(ssl) = << >>
      /\ \A i \in 1..Len(ssl.transcript) :
           ssl.transcript[i] = "end_of_early_data"
             => /\ i > 1
                /\ ssl.transcript[i - 1] = "finished"
                /\ \A j \in 1..(i - 2) : ssl.transcript[j] # "finished"

\* C16 witness: a handshake in which the server accepted early data is
\* over and the EndOfEarlyData was written before the client Finished
C16_Witness ==
  /\ ssl.state = "HANDSHAKE_OVER"
  /\ ssl.early_data_status = "ACCEPTED"
  /\ \E i, j \in 1..Len(ssl.sent) :
       /\ i < j
       /\ ssl.sent[i].hs_type = "end_of_early_data"
       /\ ssl.sent[j].hs_type = "finished"

Edges ==
  { << "HELLO_REQUEST", "CLIENT_HELLO" >>,
    << "CLIENT_HELLO", "CLIENT_CCS_AFTER_CLIENT_HELLO" >>,
    << "CLIENT_HELLO", "EARLY_APP_DATA" >>,
    << "CLIENT_CCS_AFTER_CLIENT_HELLO", "EARLY_APP_DATA" >>,
    << "EARLY_APP_DATA", "SERVER_HELLO" >>,
    << "SERVER_HELLO", "CLIENT_CCS_BEFORE_2ND_CLIENT_HELLO" >>,
    << "SERVER_HELLO", "CLIENT_HELLO" >>,
    << "CLIENT_CCS_BEFORE_2ND_CLIENT_HELLO", "CLIENT_HELLO" >>,
    << "SERVER_HELLO", "ENCRYPTED_EXTENSIONS" >>,
    << "ENCRYPTED_EXTENSIONS", "CERTIFICATE_REQUEST" >>,
    << "ENCRYPTED_EXTENSIONS", "SERVER_FINISHED" >>,
    << "CERTIFICATE_REQUEST", "SERVER_CERTIFICATE" >>,
    << "SERVER_CERTIFICATE", "CERTIFICATE_VERIFY" >>,
    << "CERTIFICATE_VERIFY", "SERVER_FINISHED" >>,
    << "SERVER_FINISHED", "END_OF_EARLY_DATA" >>,
    << "END_OF_EARLY_DATA", "CLIENT_CCS_AFTER_SERVER_FINISHED" >>,
    << "END_OF_EARLY_DATA", "CLIENT_CERTIFICATE" >>,
    << "CLIENT_CCS_AFTER_SERVER_FINISHED", "CLIENT_CERTIFICATE" >>,
    << "CLIENT_CERTIFICATE", "CLIENT_CERTIFICATE_VERIFY" >>,
    << "CLIENT_CERTIFICATE", "CLIENT_FINISHED" >>,
    << "CLIENT_CERTIFICATE_VERIFY", "CLIENT_FINISHED" >>,
    << "CLIENT_FINISHED", "FLUSH_BUFFERS" >>,
    << "FLUSH_BUFFERS", "HANDSHAKE_WRAPUP" >>,
    << "HANDSHAKE_WRAPUP", "HANDSHAKE_OVER" >> }

\* the handshake messages written by a step from context s to context t
WrittenBy(s, t) ==
  HandshakeTypes(SubSeq(t.sent, Len(s.sent) + 1, Len(t.sent)))

\* C18 as stated: a step writes at most one handshake message or reads at
\* most one, and a step that returns 0 moves the state along one edge of
\* the diagram.
C18_OneMessageOneEdge ==
  [][ /\ Len(WrittenBy(ssl, ssl')) <= 1
      /\ in_msg' # NoMessage => WrittenBy(ssl, ssl') = << >>
      /\ ssl'.ret = "OK" => << ssl.state, ssl'.state >> \in Edges ]_vars

\* C18 amended: a step writes at most one handshake message or reads at
\* most one; a step that returns 0 moves the state along one edge of the
\* diagram, except the SERVER_HELLO step that takes a ServerHello without
\* supported_versions for a TLS 1.2 ServerHello: it returns 0, sets the
\* version to TLS 1.2 and leaves the state SERVER_HELLO.
C18_OneMessageOneEdgeInTls13 ==
  [][ /\ Len(WrittenBy(ssl, ssl')) <= 1
      /\ in_msg' # NoMessage => WrittenBy(ssl, ssl') = << >>
      /\ ssl'.ret = "OK"
           => IF ssl'.tls_version = TLS1_3
                THEN << ssl.state, ssl'.state >> \in Edges
                ELSE /\ ssl.state = "SERVER_HELLO"
                     /\ ssl'.state = "SERVER_HELLO"
                     /\ ssl'.tls_version = TLS1_2
                     /\ IsServerHello(in_msg')
                     /\ ~HasExt(in_msg', EXT_SUPPORTED_VERSIONS)
                     /\ conf.min_tls_version = TLS1_2 ]_vars

\* C18 witness: a ServerHello without supported_versions was accepted as a
\* TLS 1.2 ServerHello and the state is still SERVER_HELLO
C18_Witness ==
  /\ IsServerHello(in_msg)
  /\ ssl.ret = "OK"
  /\ ssl.tls_version = TLS1_2
  /\ ssl.state = "SERVER_HELLO"

\* the position of a state on the forward path of the step function
Rank(st) ==
  CASE st = "HELLO_REQUEST" -> 0
    [] st = "CLIENT_HELLO" -> 1
    [] st = "CLIENT_CCS_AFTER_CLIENT_HELLO" -> 2
    [] st = "EARLY_APP_DATA" -> 3
    [] st = "SERVER_HELLO" -> 4
    [] st = "CLIENT_CCS_BEFORE_2ND_CLIENT_HELLO" -> 5
    [] st = "ENCRYPTED_EXTENSIONS" -> 6
    [] st = "CERTIFICATE_REQUEST" -> 7
    [] st = "SERVER_CERTIFICATE" -> 8
    [] st = "CERTIFICATE_VERIFY" -> 9
    [] st = "SERVER_FINISHED" -> 10
    [] st = "END_OF_EARLY_DATA" -> 11
    [] st = "CLIENT_CCS_AFTER_SERVER_FINISHED" -> 12
    [] st = "CLIENT_CERTIFICATE" -> 13
    [] st = "CLIENT_CERTIFICATE_VERIFY" -> 14
    [] st = "CLIENT_FINISHED" -> 15
    [] st = "FLUSH_BUFFERS" -> 16
    [] st = "HANDSHAKE_WRAPUP" -> 17
    [] st = "HANDSHAKE_OVER" -> 18

\* a step back to the ClientHello: from SERVER_HELLO directly, or from the
\* compatibility ChangeCipherSpec that follows a HelloRetryRequest
BackwardEdge ==
  /\ ssl.state \in {"SERVER_HELLO", "CLIENT_CCS_BEFORE_2ND_CLIENT_HELLO"}
  /\ ssl'.state = "CLIENT_HELLO"

\* every state change that is not the return to CLIENT_HELLO goes forward,
\* and the return is taken only while answering the first HelloRetryRequest
BackwardOnlyOnce ==
  [][ /\ ssl'.hello_retry_request_count >= ssl.hello_retry_request_count
      /\ ssl'.hello_retry_request_count <= 1
      /\ ssl'.state # ssl.state /\ ~BackwardEdge
           => Rank(ssl'.state) > Rank(ssl.state)
      /\ BackwardEdge
           => /\ ssl'.hello_retry_request_count = 1
              /\ Len(ClientHellos(ssl)) = 1 ]_vars

\* every step that neither fails nor hands over to TLS 1.2 changes the state
EveryStepMoves ==
  [][ ssl'.ret = "OK" /\ ssl'.tls_version = TLS1_3
        => ssl'.state # ssl.state ]_vars

AlertWritten(s, t) ==
  \E i \in (Len(s.sent) + 1)..Len(t.sent) : t.sent[i].hs_type = "alert"

\* the step fetched a message and failed before the message was added to the
\* transcript: the failure is that of the fetch or of the parser
ParserFailed ==
  /\ in_msg' # NoMessage
  /\ ssl'.ret # "OK"
  /\ ssl'.transcript = ssl.transcript

\* C20: when the parser of a step fails, a fatal alert is pended (or written)
\* before the step returns the error, and no step is taken after an error.
C20_AlertBeforeError ==
  [][ /\ ssl.ret = "OK"
      /\ ParserFailed => ssl'.alert # "none" \/ AlertWritten(ssl, ssl') ]_vars

\* the step read a ServerHello with the HelloRetryRequest random for a
\* client that has no ephemeral key-exchange mode configured
HrrWithoutEphemeral ==
  /\ IsServerHello(in_msg')
  /\ HasHrrRandom(in_msg')
  /\ ~mbedtls_ssl_conf_tls13_some_ephemeral_enabled(conf)

\* C21: a HelloRetryRequest received by a client without an ephemeral
\* key-exchange mode is refused with illegal_parameter, the state stays
\* SERVER_HELLO and no second ClientHello is written.
C21_HrrWithoutEphemeralRefused ==
  [][ /\ HrrWithoutEphemeral
        => /\ ssl'.ret = "ILLEGAL_PARAMETER"
           /\ ssl'.alert = "illegal_parameter"
           /\ ssl'.state = "SERVER_HELLO"
      /\ ~mbedtls_ssl_conf_tls13_some_ephemeral_enabled(conf)
        => Len(ClientHellos(ssl')) <= 1 ]_vars

\* the step took in_msg' as a NewSessionTicket and stored its ticket
TicketIngested ==
  /\ in_msg'.hs_type = "new_session_ticket"
  /\ ssl'.ret = "RECEIVED_NEW_SESSION_TICKET"

\* C22: after a NewSessionTicket with the early_data extension is ingested
\* the session's allow-early-data flag is set, and after one without the
\* extension is ingested the flag is not set, whatever tickets came before.
C22_EarlyDataFlagFollowsTicket ==
  [][ TicketIngested
        => ( "allow_early_data" \in ssl'.session.ticket_flags
               <=> HasExt(in_msg', EXT_EARLY_DATA) ) ]_vars

\* the step writes the ClientHello of a context that has a clock and on
\* which a session with a ticket was set
OffersTicket ==
  /\ ssl.state = "CLIENT_HELLO"
  /\ ssl.session.ticket # 0
  /\ ssl.have_time
  /\ mbedtls_ssl_get_psk_to_offer(conf)

\* the age of the ticket in seconds when the ClientHello is written
TicketAge ==
  ssl.clock - ssl.ticket_received

\* the ClientHello written by the step carries pre_shared_key
PreSharedKeyWritten ==
  /\ Len(ClientHellos(ssl')) = 1
  /\ HasExt(ClientHellos(ssl')[1], EXT_PRE_SHARED_KEY)

\* C23: a ticket older than 7 days (7 * 86400 seconds) is not offered in the
\* ClientHello, and a ticket younger than 7 days is offered.
C23_TicketExpiresAfterSevenDays ==
  [][ OffersTicket
        => /\ TicketAge > 7 * 86400 => ~PreSharedKeyWritten
           /\ (TicketAge >= 0 /\ TicketAge < 7 * 86400) => PreSharedKeyWritten ]_vars

\* ((now - ticket_received) + ticket_age_add) modulo 2^32, in 16-bit halves
ExpectedObfuscatedAge ==
  LET low == (TicketAge % Half) + ssl.ticket_age_add[2]
      high == (TicketAge \div Half) + ssl.ticket_age_add[1] + (low \div Half)
  IN  << high % Half, low % Half >>

\* the obfuscated_ticket_age of the pre_shared_key extension the step wrote
WrittenObfuscatedAge ==
  ExtsOfType(ClientHellos(ssl')[1], EXT_PRE_SHARED_KEY)[1].obfuscated_ticket_age

\* C24: the obfuscated_ticket_age written for a ticket is
\* ((now - ticket_received) + ticket_age_add) modulo 2^32 for every
\* ticket_age_add when the build has a clock, and zero when it has none.
C24_ObfuscatedTicketAge ==
  [][ ( /\ ssl.state = "CLIENT_HELLO"
        /\ ssl.session.ticket # 0
        /\ PreSharedKeyWritten )
        => WrittenObfuscatedAge =
             IF ssl.have_time THEN ExpectedObfuscatedAge ELSE << 0, 0 >> ]_vars

\* the modes listed by every psk_key_exchange_modes extension of ClientHello
\* ch are those of the configuration
ListsConfiguredModes(ch) ==
  \A i \in 1..Len(ch.exts) :
    ch.exts[i].type = EXT_PSK_KEY_EXCHANGE_MODES
      => /\ "PSK" \in ch.exts[i].ke_modes <=> "PSK" \in conf.tls13_kex_modes
         /\ "PSK_EPHEMERAL" \in ch.exts[i].ke_modes
              <=> "PSK_EPHEMERAL" \in conf.tls13_kex_modes

\* C25 as stated: every ClientHello carries psk_key_exchange_modes exactly
\* when some PSK mode is enabled, and the extension lists psk_ke exactly when
\* pure PSK is enabled and psk_dhe_ke exactly when PSK-ephemeral is enabled.
C25_ModesExtIffPskModeEnabled ==
  \A i \in 1..Len(ClientHellos(ssl)) :
    LET ch == ClientHellos(ssl)[i]
    IN  /\ HasExt(ch, EXT_PSK_KEY_EXCHANGE_MODES)
             <=> mbedtls_ssl_conf_tls13_some_psk_enabled(conf)
        /\ ListsConfiguredModes(ch)

\* C25 amended: every ClientHello carries psk_key_exchange_modes exactly when
\* some PSK mode is enabled and a PSK is available to offer, and the
\* extension lists psk_ke exactly when pure PSK is enabled and psk_dhe_ke
\* exactly when PSK-ephemeral is enabled.
C25_ModesExtIffPskModeAndPsk ==
  \A i \in 1..Len(ClientHellos(ssl)) :
    LET ch == ClientHellos(ssl)[i]
    IN  /\ HasExt(ch, EXT_PSK_KEY_EXCHANGE_MODES)
             <=> ( /\ mbedtls_ssl_conf_tls13_some_psk_enabled(conf)
                   /\ mbedtls_ssl_get_psk_to_offer(conf) )
        /\ ListsConfiguredModes(ch)

\* C25 witness: a client with a PSK mode enabled and no PSK to offer has
\* written a ClientHello without psk_key_exchange_modes
C25_Witness ==
  /\ mbedtls_ssl_conf_tls13_some_psk_enabled(conf)
  /\ ~mbedtls_ssl_get_psk_to_offer(conf)
  /\ Len(ClientHellos(ssl)) >= 1
  /\ ~HasExt(ClientHellos(ssl)[1], EXT_PSK_KEY_EXCHANGE_MODES)

\* the extension data is one ProtocolNameList that holds exactly one
\* ProtocolName, with length fields that fit the data
OneProtocolName(buf) ==
  /\ Len(buf) >= 4
  /\ GetUint16BE(buf, 1) = Len(buf) - 2
  /\ buf[3] = Len(buf) - 3

\* the protocol named by extension data of the shape OneProtocolName
NamedProtocol(buf) ==
  SubSeq(buf, 4, Len(buf))

\* C26: the ALPN extension is accepted only if it holds exactly one protocol
\* name, with consistent length fields, that the client offered; otherwise
\* it is refused (bad input, or decode error from the bounds checks) and no
\* protocol is recorded.
C26_AlpnAcceptedOnlyIfSingleOfferedName ==
  [][ in_msg'.hs_type = "encrypted_extensions"
        => IF /\ OneProtocolName(in_msg'.alpn)
              /\ \E i \in 1..Len(conf.alpn_list) :
                   conf.alpn_list[i] = NamedProtocol(in_msg'.alpn)
             THEN /\ ssl'.ret = "OK"
                  /\ ssl'.alpn_chosen = NamedProtocol(in_msg'.alpn)
             ELSE /\ ssl'.ret \in {"BAD_INPUT_DATA", "DECODE_ERROR"}
                  /\ ssl'.alpn_chosen = << >> ]_vars

(***************************************************************************)
(* C27.  The middlebox-compatibility states.                               *)
(***************************************************************************)
CcsStates ==
  { "CLIENT_CCS_AFTER_CLIENT_HELLO", "CLIENT_CCS_BEFORE_2ND_CLIENT_HELLO",
    "CLIENT_CCS_AFTER_SERVER_FINISHED" }

\* the records the step put on the wire
CcsStepEmitted ==
  SubSeq(ssl'.sent, Len(ssl.sent) + 1, Len(ssl'.sent))

\* C27: a step taken in a CCS_* state changes nothing of the context but the
\* handshake state and the records sent, and what it sends is nothing or one
\* ChangeCipherSpec record whose payload is the single byte 1; the
\* transcript, the stage of the key schedule, the transforms, the
\* HelloRetryRequest count and the offered group are as before the step
C27_CcsStepChangesOnlyState ==
  [][ ssl.state \in CcsStates
        => /\ ssl' = [ssl EXCEPT !.state = ssl'.state, !.sent = ssl'.sent]
           /\ ssl'.state # ssl.state
           /\ Len(ssl'.sent) >= Len(ssl.sent)
           /\ SubSeq(ssl'.sent, 1, Len(ssl.sent)) = ssl.sent
           /\ CcsStepEmitted \in
                { << >>, << [hs_type |-> "change_cipher_spec", payload |-> << 1 >>] >> }
           /\ conf' = conf ]_vars

\* a ChangeCipherSpec record was written before the second ClientHello, after
\* a HelloRetryRequest had been absorbed into the transcript and a group
\* had been picked
C27_Witness ==
  /\ ssl.state = "CLIENT_HELLO"
  /\ ssl.hello_retry_request_count = 1
  /\ ssl.transcript # << >>
  /\ Len(ssl.sent) = 2
  /\ ssl.sent[2] = [hs_type |-> "change_cipher_spec", payload |-> << 1 >>]

(***************************************************************************)
(* C28.  The transcript reset applied twice.                               *)
(***************************************************************************)
\* what the transcript hash has absorbed: the message_hash message that
\* heads it and the messages after it
TranscriptState(s) ==
  << s.hash_transcript, s.transcript >>

\* C28 as stated: resetting the transcript twice in a row leaves the same
\* transcript state as resetting it once
C28_ResetTwiceEqualsOnce ==
  TranscriptState(mbedtls_ssl_reset_transcript_for_hrr(
                    mbedtls_ssl_reset_transcript_for_hrr(ssl)))
    = TranscriptState(mbedtls_ssl_reset_transcript_for_hrr(ssl))

\* C28 as the code has it: a reset leaves the transcript as one message_hash
\* message whose digest covers the transcript state before it, with the
\* hash length of the negotiated ciphersuite; a reset of that transcript
\* hashes the message_hash of the first, so it never leaves the state it
\* found, and two resets in a row differ from one
C28_ResetHashesWhatWasThere ==
  [][ ssl'.transcript = << "message_hash" >> /\ ssl.state = "SERVER_HELLO"
        => /\ Len(ssl'.hash_transcript) = 1
           /\ ssl'.hash_transcript[1].covers = ssl.transcript
           /\ ssl'.hash_transcript[1].after = ssl.hash_transcript
           /\ ssl'.hash_transcript[1].hash_len
                = mbedtls_ssl_ciphersuite_from_id(ssl.ciphersuite).hash_len
           /\ ssl'.hash_transcript[1].hash_len \in {32, 48}
           /\ TranscriptState(ssl') # TranscriptState(ssl)
           /\ TranscriptState(mbedtls_ssl_reset_transcript_for_hrr(ssl'))
                # TranscriptState(ssl') ]_vars

\* the reset has been applied twice in a row to a transcript that held a
\* ClientHello
C28_Witness ==
  /\ ssl.transcript = << "message_hash" >>
  /\ ResetsIn(ssl.hash_transcript) = 2
  /\ ssl.hash_transcript[1].covers = << "message_hash" >>
  /\ ssl.hash_transcript[1].after[1].covers = << "client_hello" >>

(***************************************************************************)
(* C29.  The context of the CertificateRequest.                            *)
(***************************************************************************)
\* the step accepted a CertificateRequest
AcceptsCertificateRequest ==
  /\ ssl.state = "CERTIFICATE_REQUEST"
  /\ in_msg'.hs_type = "certificate_request"
  /\ ssl'.ret = "OK"

\* the step wrote the client's Certificate
WritesClientCertificate ==
  /\ ssl.state = "CLIENT_CERTIFICATE"
  /\ Len(ssl'.sent) = Len(ssl.sent) + 1
  /\ ssl'.sent[Len(ssl'.sent)].hs_type = "certificate"

\* C29: an accepted CertificateRequest leaves its context recorded, bytes and
\* length, and the Certificate the client writes carries the recorded
\* context
C29_CertificateCarriesRequestContext ==
  [][ /\ AcceptsCertificateRequest
        => /\ ssl'.certificate_request_context = in_msg'.context
           /\ ssl'.certificate_request_context_len = Len(in_msg'.context)
      /\ WritesClientCertificate
        => ssl'.sent[Len(ssl'.sent)].context = ssl.certificate_request_context ]_vars

(***************************************************************************)
(* C30.  The transforms the key schedule allocates.                        *)
(***************************************************************************)
\* C30: a transform allocated by a key-schedule step has, when the function
\* that allocated it returns, either been installed or been freed with its
\* key material zeroized
C30_TransformInstalledOrFreedZeroized ==
  \A i \in 1..Len(ssl.heap) :
    ssl.heap[i].fate \in {"installed", "freed_zeroized"}

(***************************************************************************)
(* C31.  The lengths the ClientHello extension writers report.             *)
(***************************************************************************)
\* the bytes an extension of the ClientHello takes in the message
ExtensionBytes(e) ==
  CASE e.type = EXT_SUPPORTED_VERSIONS -> 5 + 2 * Len(e.versions)
    [] e.type = EXT_COOKIE -> 6 + Len(e.cookie)
    [] e.type = EXT_KEY_SHARE -> 6 + 4 + PublicKeyLen(e.group)
    [] e.type = EXT_EARLY_DATA -> 4
    [] e.type = EXT_PSK_KEY_EXCHANGE_MODES -> 5 + Cardinality(e.ke_modes)
    [] OTHER -> 0

RECURSIVE SumOfExtensionBytes(_)
SumOfExtensionBytes(exts) ==
  IF exts = << >> THEN 0
  ELSE ExtensionBytes(Head(exts)) + SumOfExtensionBytes(Tail(exts))

\* the extensions of the ClientHello the step wrote, less pre_shared_key,
\* which mbedtls_ssl_tls13_write_client_hello_exts does not write
ExtensionBlockWritten ==
  SelectSeq(ssl'.sent[Len(ssl'.sent)].exts,
            LAMBDA e : e.type # EXT_PRE_SHARED_KEY)

WritesClientHello ==
  /\ ssl.state = "CLIENT_HELLO"
  /\ Len(ssl'.sent) = Len(ssl.sent) + 1
  /\ ssl'.sent[Len(ssl'.sent)].hs_type = "client_hello"

\* C31: the length mbedtls_ssl_tls13_write_client_hello_exts reports is the sum
\* of the lengths of the extensions it wrote, a writer that skips its
\* extension adding zero, in every configuration
C31_ExtsLengthIsSumOfExtensions ==
  [][ WritesClientHello
        => mbedtls_ssl_tls13_write_client_hello_exts_out_len(conf, ssl)
             = SumOfExtensionBytes(ExtensionBlockWritten) ]_vars

(***************************************************************************)
(* C32.  The key_share of the ServerHello.                                 *)
(***************************************************************************)
\* the key_share the step parsed
ParsedKeyShare ==
  in_msg'.exts[1]

\* the extension data ends before the key_exchange length, or the length
\* declared runs past the data or past the stored peer key
KeyShareMalformed(ext) ==
  \/ ext.data_len < 4
  \/ ext.key_exchange_length > ext.data_len - 4
  \/ ext.key_exchange_length > PeerKeyCapacity

\* C32: a key_share whose data ends before the 2-byte key_exchange length, or
\* whose key_exchange length exceeds the rest of the data or the capacity of
\* the stored peer key, is refused with a decode error and nothing is copied
\* into the stored peer key
C32_MalformedKeyShareRefused ==
  [][ /\ ssl.state = "SERVER_HELLO"
      /\ in_msg'.hs_type = "server_hello"
      /\ ParsedKeyShare.group = ssl.offered_group_id
      /\ KeyShareMalformed(ParsedKeyShare)
        => /\ ssl'.ret = "DECODE_ERROR"
           /\ ssl'.peerkey_copied = 0
           /\ ssl'.ecdh_psa_peerkey_len = 0 ]_vars

(***************************************************************************)
(* C33.  What a finished handshake has been through.                       *)
(***************************************************************************)
\* the place of the first message of a type in the transcript, 0 when none
FirstInTranscript(hs_type) ==
  IF \E i \in 1..Len(ssl.transcript) : ssl.transcript[i] = hs_type
    THEN CHOOSE i \in 1..Len(ssl.transcript) :
           /\ ssl.transcript[i] = hs_type
           /\ \A j \in 1..(i - 1) : ssl.transcript[j] # hs_type
    ELSE 0

\* the messages of the server enter the transcript only when accepted: a
\* Finished when its verify_data is the one computed over the transcript, a
\* CertificateVerify when its scheme was offered and its signature verifies
\* under the key of the peer certificate, a Certificate when it validates
ServerAuthMessagesEnterVerified ==
  /\ (ssl.state = "SERVER_FINISHED" /\ ssl'.transcript # ssl.transcript)
       => /\ in_msg'.hs_type = "finished"
          /\ in_msg'.verify_data
               = mbedtls_ssl_tls13_calculate_verify_data(ssl, "server")
          /\ ssl'.transcript = Append(ssl.transcript, "finished")
  /\ (ssl.state = "CERTIFICATE_VERIFY" /\ ssl'.transcript # ssl.transcript)
       => /\ in_msg'.hs_type = "certificate_verify"
          /\ in_msg'.sig_alg_is_offered /\ in_msg'.pk_can_do /\ in_msg'.pk_verify
          /\ ssl.peer_cert
          /\ ssl'.transcript = Append(ssl.transcript, "certificate_verify")
  /\ (ssl.state = "SERVER_CERTIFICATE" /\ ssl'.transcript # ssl.transcript)
       => /\ in_msg'.hs_type = "certificate"
          /\ in_msg'.valid
          /\ ssl'.peer_cert
          /\ ssl'.transcript = Append(ssl.transcript, "certificate")
  /\ ssl.state \in {"SERVER_FINISHED", "CERTIFICATE_VERIFY", "SERVER_CERTIFICATE"}
       => \/ ssl'.state = ssl.state
          \/ ssl'.transcript # ssl.transcript
          \/ mbedtls_ssl_tls13_kex_with_psk(ssl) /\ ssl.state # "SERVER_FINISHED"

\* a handshake that is over holds an accepted Finished of the server and,
\* when the key exchange is ephemeral without PSK, before it an accepted
\* Certificate and after that an accepted CertificateVerify
OverOnlyAfterServerAuth ==
  ssl.state \in {"HANDSHAKE_OVER", "HANDSHAKE_WRAPUP", "FLUSH_BUFFERS"}
    => /\ FirstInTranscript("finished") > 0
       /\ ssl.key_exchange = "EPHEMERAL"
            => /\ 0 < FirstInTranscript("certificate")
               /\ FirstInTranscript("certificate") < FirstInTranscript("certificate_verify")
               /\ FirstInTranscript("certificate_verify") < FirstInTranscript("finished")

\* C33: HANDSHAKE_OVER is reached only after the Finished of the server
\* verified and, in ephemeral mode, after a Certificate of the server was
\* processed and a CertificateVerify over the transcript verified before it
C33_OverOnlyAfterServerAuth ==
  /\ []OverOnlyAfterServerAuth
  /\ [][ServerAuthMessagesEnterVerified]_vars

\* an ephemeral handshake is over
C33_Witness ==
  /\ ssl.state = "HANDSHAKE_OVER"
  /\ ssl.key_exchange = "EPHEMERAL"
  /\ ssl.peer_cert
  /\ FirstInTranscript("certificate_verify") > 0

(***************************************************************************)
(* C34: the key-exchange mode and the configured modes.                    *)
(***************************************************************************)
\* C34: the key-exchange mode fixed by ServerHello post-processing is one of
\* the modes enabled in the configuration: PSK only if pure-PSK is enabled,
\* PSK-ephemeral only if PSK-ephemeral is enabled, ephemeral only if ephemeral
\* is enabled.
C34_KeyExchangeModeEnabled ==
  ssl.key_exchange # "NONE" => ssl.key_exchange \in conf.tls13_kex_modes

(***************************************************************************)
(* C35: the PSK that enters the key schedule.                              *)
(***************************************************************************)
\* the message carries a pre_shared_key extension that selects identity 0
SelectsIdentityZero(m) ==
  \E i \in 1..Len(m.exts) :
     /\ m.exts[i].type = EXT_PRE_SHARED_KEY
     /\ m.exts[i].selected_identity = 0

\* early data went out under the PSK before the ServerHello came
EarlyDataSent(s) ==
  \E i \in 1..Len(s.sent) : s.sent[i].hs_type = "early_data"

\* ServerHello post-processing has just run to its end on message in_msg
ServerHelloPostprocessed ==
  /\ IsServerHello(in_msg)
  /\ ssl.coordinate = "HELLO"
  /\ ssl.state = "ENCRYPTED_EXTENSIONS"

\* C35: the early secret of ServerHello post-processing is derived from the
\* offered PSK exactly when the ServerHello carried a pre_shared_key
\* extension selecting identity 0; in ephemeral mode it is derived with no
\* PSK, also when early data had been sent under the PSK.
C35_PskInKeyScheduleIffSelected ==
  ServerHelloPostprocessed
    => /\ ssl.early_secret_psk = "PSK" <=> SelectsIdentityZero(in_msg)
       /\ ssl.early_secret_psk = "PSK" => mbedtls_ssl_get_psk_to_offer(conf)
       /\ ssl.key_exchange = "EPHEMERAL" => ssl.early_secret_psk = "ZERO"
       /\ ssl.early_secret_psk \in {"PSK", "ZERO"}

\* C35 witness: early data was sent under the PSK, the server chose
\* ephemeral mode, and the early secret was derived again without the PSK
C35_Witness ==
  /\ ServerHelloPostprocessed
  /\ EarlyDataSent(ssl)
  /\ ssl.key_exchange = "EPHEMERAL"
  /\ ssl.early_secret_psk = "ZERO"

(***************************************************************************)
(* C36: early data is written once, and not after a HelloRetryRequest.     *)
(***************************************************************************)
\* the records of early application data written so far
EarlyDataRecords(s) ==
  SelectSeq(s.sent, LAMBDA r : r.hs_type = "early_data")

\* the step that is taken writes a record of early application data
WritesEarlyData ==
  Len(EarlyDataRecords(ssl')) > Len(EarlyDataRecords(ssl))

\* C36: early application data is written at most once on a connection, and
\* never once a HelloRetryRequest has been received.
C36_EarlyDataOnceAndNotAfterHrr ==
  /\ [](Len(EarlyDataRecords(ssl)) <= 1)
  /\ [][WritesEarlyData => ssl.hello_retry_request_count = 0]_vars

(***************************************************************************)
(* C37: a step that fails leaves the handshake state where it was.         *)
(***************************************************************************)
\* the step taken returned something other than success
StepFailed ==
  ssl'.ret # "OK"

\* C37: when a step returns anything other than success, the handshake
\* state after the call is the state before it, so that a retry runs the
\* same handler again.
C37_FailedStepKeepsState ==
  [][StepFailed => ssl'.state = ssl.state]_vars

(***************************************************************************)
(* C38: a NewSessionTicket that fails and the ticket stored before.        *)
(***************************************************************************)
\* what ssl->session holds of a ticket: its bytes and length, lifetime,
\* age-add, flags and the length of the resumption key
StoredTicket(s) ==
  [ ticket |-> s.session.ticket,
    ticket_lifetime |-> s.session.ticket_lifetime,
    ticket_age_add |-> s.session.ticket_age_add,
    ticket_flags |-> s.session.ticket_flags,
    key_len |-> s.session.key_len ]

\* the step taken handled a NewSessionTicket and returned an error
NewSessionTicketFailed ==
  /\ ssl.state = "CLIENT_NEW_SESSION_TICKET"
  /\ ssl'.ret \notin {"OK", "RECEIVED_NEW_SESSION_TICKET"}

\* C38: when the processing of a NewSessionTicket fails, the ticket the
\* session stored before (bytes, length, lifetime, age-add, resumption key
\* and flags) is unchanged.
C38_FailedTicketKeepsStoredTicket ==
  [][NewSessionTicketFailed => StoredTicket(ssl') = StoredTicket(ssl)]_vars

(***************************************************************************)
(* C39: the ChangeCipherSpec records of a connection.                      *)
(***************************************************************************)
\* the ChangeCipherSpec records written so far
CcsRecords(s) ==
  SelectSeq(s.sent, LAMBDA r : r.hs_type = "change_cipher_spec")

\* C39: in compatibility mode the client writes at most one ChangeCipherSpec
\* record on a connection, with or without early data and with or without a
\* HelloRetryRequest.
C39_AtMostOneCcs ==
  conf.compatibility_mode => Len(CcsRecords(ssl)) <= 1

(***************************************************************************)
(* C40: the Certificate body and its output range.                         *)
(***************************************************************************)
\* the body writer has run on the chain in_msg.crt
CertificateBodyWritten ==
  in_msg.hs_type = "certificate_body"

\* C40: the writer of the Certificate body stores no byte outside the output
\* range [buf, end), and when it succeeds the length it reports is the
\* number of bytes it stored, for every chain and every size of the range.
C40_CertificateBodyWithinRange ==
  CertificateBodyWritten
    => /\ \A o \in ssl.out_buf.written : 0 <= o /\ o < ssl.out_buf.size
       /\ ssl.ret = "OK"
            => ssl.out_buf.out_len = Cardinality(ssl.out_buf.written)

====
